---- MODULE Spec2Model ----
(***************************************************************************)
(* Account pool of the 403 account-rotation handler flow.                  *)
(*                                                                         *)
(* The pool manager modelled here is MockAccountManager, the account       *)
(* manager the handler-flow integration test drives (unnamed/part_002).    *)
(* JavaScript values are encoded as follows: null is the string "null",    *)
(* undefined is the string "undefined", a missing timestamp is a negative  *)
(* integer, and booleans returned by a method are the strings "true" and   *)
(* "false" so that every method result has one type.                       *)
(***************************************************************************)
EXTENDS Integers, Sequences, FiniteSets, TLC

\* ---------------------------------------------------------------- bounds
MaxPool  == 2      \* accounts handed to the constructor: 0..MaxPool
MaxSteps == 3      \* calls, collaborator steps and clock ticks in one run
MaxTime  == 1      \* Date.now() ranges over 0..MaxTime

\* ------------------------------------------------------------ JS values
Null          == "null"
Undefined     == "undefined"
NullTime      == 0 - 1
UndefinedTime == 0 - 2

MaxTokens == 2
MaxTrail  == 2
MaxCharts == 2
MaxTimers == 3
MaxPending == 2
MaxFetch == 3
MaxMessages == 3
MaxStreams == 3
MaxTopN == 2
DEFAULT_LOG_LIMIT == 2

\* ----------------------------------------------------------- input sets
AllEmails     == <<"a@test.com", "b@test.com", "c@test.com", "test@example.com">>
UnknownEmail  == "unknown@example.com"
Reasons       == {"Account requires verification", "Token revoked"}
VerifyUrlArgs == {Undefined, Null, "", "https://accounts.google.com/signin/continue?sarp=1"}
Models        == {"A", "B"}

PoolOf(n)     == SubSeq(AllEmails, 1, n)
EmailArgs(accs) == {accs[i].email : i \in 1..Len(accs)} \cup {UnknownEmail}

\* a window that ends at the first tick, and one that outlasts the run
ResetMsArgs   == {1, MaxTime + 1}

VARIABLES
    _accounts,      \* this._accounts: the pool, in insertion order
    _logLen,        \* this._log.length
    _savedToDisk,   \* this._savedToDisk
    tokenCache,     \* emails for which a collaborator holds a cached token
    projectCache,   \* emails for which a collaborator holds project metadata
    now,            \* Date.now()
    nSteps,         \* calls, collaborator steps and clock ticks so far
    call,           \* the most recent call or collaborator step
    ret,            \* what that call returned
    errorText,      \* the upstream error body the handler is given
    err,            \* the error the handler raises for it
    verdict,        \* what the classification functions said about it
    outcome,        \* how the classification calls ended
    extracted       \* what extractVerificationUrl returned

clsVars == <<errorText, err, verdict, outcome, extracted>>

\* The web UI's logger (window.UILogger) and what it reads.
VARIABLES
    debugEnabled,   \* the cached debug state of the UILogger closure
    ag_debug,       \* localStorage item 'ag_debug'
    urlDebug,       \* the page URL carries ?debug=true
    storageThrows,  \* localStorage is not accessible: every use of it throws
    uiCall,         \* the most recent UILogger method called
    consoleOut,     \* the console methods that call wrote with
    uiRet,          \* what that call returned
    lastSet         \* the state the last successful enableDebug,
                    \* disableDebug or refresh set (at first: the page load)

logVars == <<debugEnabled, ag_debug, urlDebug, storageThrows, uiCall,
             consoleOut, uiRet, lastSet>>

\* The dashboard's usage-trend chart (window.DashboardCharts).
VARIABLES
    _trendChartUpdateLock,  \* the module-level lock
    canvasPresent,          \* document.getElementById("usageTrendChart")
    chartJsLoaded,          \* typeof Chart !== "undefined"
    canvasReady,            \* isCanvasReady(canvas)
    historyEmpty,           \* the filtered history has no entry
    _chartInstance,         \* canvas._chartInstance (0: null)
    usageTrend,             \* component.charts.usageTrend (0: null)
    hasFilteredTrendData,   \* component.hasFilteredTrendData
    liveCharts,             \* charts created and not destroyed
    chartsMade,             \* charts created so far
    trendPc,                \* where the running update body stands
    trendOp,                \* the most recent step of updateTrendChart
    trendRet,               \* how the most recent call ended
    updatesInProgress       \* update bodies entered and not yet left

chartVars == <<_trendChartUpdateLock, canvasPresent, chartJsLoaded,
               canvasReady, historyEmpty, _chartInstance, usageTrend,
               hasFilteredTrendData, liveCharts, chartsMade, trendPc,
               trendOp, trendRet, updatesInProgress>>

\* The data store's connection monitoring (Alpine.store('data')).
VARIABLES
    healthCheckTimer,        \* this.healthCheckTimer (0: null)
    liveIntervals,           \* intervals the store created, not yet cleared
    timersMade,              \* intervals created so far
    _healthVisibilitySetup,  \* this._healthVisibilitySetup
    listenerAttached,        \* _visibilityHandler is registered on document
    hidden,                  \* document.hidden
    healthOp,                \* the most recent step of the monitoring
    performed,               \* that step invoked performHealthCheck
    destroyed,               \* destroy() has been called
    connectionStatus,        \* this.connectionStatus
    healthPending            \* health requests awaiting their response

healthVars == <<healthCheckTimer, liveIntervals, timersMade,
                _healthVisibilitySetup, listenerAttached, hidden, healthOp,
                performed, destroyed, connectionStatus, healthPending>>

\* The data store's fetchData and the calls of it in flight.
VARIABLES
    loading,         \* this.loading: the skeleton screen is shown
    initialLoad,     \* this.initialLoad
    fetchState,      \* per call of fetchData: where it stands
    accounts,        \* this.accounts: the call whose data it holds (0: the
                     \* initial empty value; so for the next four)
    models,          \* this.models
    modelConfig,     \* this.modelConfig
    usageHistory,    \* this.usageHistory
    quotaRows,       \* this.quotaRows: the values it was computed from
    responseModels,  \* data.models of the response stored last
    lastUpdated,     \* this.lastUpdated: the call that set it (0: '-')
    versionFetched,  \* fetchVersion has been called
    toasts           \* calls that showed the 'connectionLost' toast

dataVars == <<accounts, models, modelConfig, usageHistory, quotaRows,
              lastUpdated>>

fetchVars == <<loading, initialLoad, fetchState, dataVars, responseModels,
               versionFetched, toasts>>

\* The log viewer component (window.Components.logsViewer).
VARIABLES
    logs,             \* this.logs: the entries, by their arrival number
    received,         \* every entry pushed since the buffer was last emptied
    arrived,          \* messages delivered so far
    logLimit,         \* Alpine.store('settings').logLimit (0: not set)
    eventSource,      \* this.eventSource (0: null)
    openStreams,      \* EventSources opened and not closed
    streamsMade,      \* EventSources opened so far
    reconnectTimers,  \* reconnect timeouts set and not yet fired
    errorsSeen,       \* stream errors handled so far
    logsOp            \* the most recent step of the log viewer

logsVars == <<logs, received, arrived, logLimit, eventSource, openStreams,
              streamsMade, reconnectTimers, errorsSeen, logsOp>>

\* The app controller's auto-refresh (Alpine.data('app')).
VARIABLES
    refreshTimer,        \* this.refreshTimer (0: null)
    liveRefreshTimers,   \* intervals the controller created, not yet cleared
    refreshTimersMade,   \* intervals created so far
    refreshInterval,     \* Alpine.store('settings').refreshInterval
    refreshListener,     \* the refresh-interval-changed listener is registered
    refreshOp            \* the most recent step of the controller

refreshVars == <<refreshTimer, liveRefreshTimers, refreshTimersMade,
                 refreshInterval, refreshListener, refreshOp>>

\* The dashboard's chart filters (window.DashboardFilters) and the
\* component they act on.
VARIABLES
    timeRange,              \* component.timeRange
    displayMode,            \* component.displayMode
    selectedFamilies,       \* component.selectedFamilies
    selectedModels,         \* component.selectedModels: per family, whether
                            \* the key is present, and its list
    families,               \* component.families
    dashboard_chart_prefs,  \* localStorage['dashboard_chart_prefs']
                            \* (<< >>: no item)
    filterOp,               \* the most recent filter operation
    trendRequested,         \* that operation called component.updateTrendChart
    userDeselected          \* families <<f>> and models <<f, m>> the user
                            \* deselected and has not selected again

filterVars == <<timeRange, displayMode, selectedFamilies, selectedModels,
                families, dashboard_chart_prefs, filterOp, trendRequested,
                userDeselected>>

moreVars == <<logsVars, refreshVars, filterVars>>

firstVars == <<logVars, chartVars, healthVars, fetchVars>>

uiVars == <<firstVars, moreVars>>

vars == <<_accounts, _logLen, _savedToDisk, tokenCache, projectCache,
          now, nSteps, call, ret, errorText, err, verdict, outcome,
          extracted, uiVars>>

\* ------------------------------------------------------ the constructor
NewAccount(email) ==
    [ email               |-> email,
      isInvalid           |-> FALSE,
      invalidReason       |-> Null,
      verifyUrl           |-> Null,
      invalidAt           |-> UndefinedTime,
      modelRateLimits     |-> << >>,
      consecutiveFailures |-> 0,
      enabled             |-> TRUE ]

NoCall == [op |-> "new", email |-> "-", reason |-> "-", verifyUrl |-> "-",
           resetMs |-> NullTime, model |-> "-"]

Call(op, email, reason, verifyUrl, resetMs, model) ==
    [op |-> op, email |-> email, reason |-> reason, verifyUrl |-> verifyUrl,
     resetMs |-> resetMs, model |-> model]

\* No error (of any class) has been constructed.
NoErr == [name |-> Undefined, code |-> Undefined, message |-> << >>,
          accountEmail |-> Undefined]

NoVerdict == [isValidationRequired     |-> FALSE,
              isPermanentAuthFailure   |-> FALSE,
              isModelCapacityExhausted |-> FALSE,
              isAccountForbiddenError  |-> FALSE,
              isRateLimitError         |-> FALSE,
              isAuthError              |-> FALSE]

\* The classification functions have not been called on their own.
NotClassified ==
    /\ outcome = "none"
    /\ extracted = << >>

\* The handler has been given no upstream error.
NoErrorYet ==
    /\ errorText = << >>
    /\ err = NoErr
    /\ verdict = NoVerdict
    /\ NotClassified

\* No page of the web UI is open.
LogIdle ==
    /\ debugEnabled = FALSE
    /\ ag_debug = Null
    /\ urlDebug = FALSE
    /\ storageThrows = FALSE
    /\ uiCall = "none"
    /\ consoleOut = << >>
    /\ uiRet = Undefined
    /\ lastSet = FALSE

ChartIdle ==
    /\ _trendChartUpdateLock = FALSE
    /\ canvasPresent = FALSE
    /\ chartJsLoaded = FALSE
    /\ canvasReady = FALSE
    /\ historyEmpty = TRUE
    /\ _chartInstance = 0
    /\ usageTrend = 0
    /\ hasFilteredTrendData = FALSE
    /\ liveCharts = {}
    /\ chartsMade = 0
    /\ trendPc = "idle"
    /\ trendOp = "none"
    /\ trendRet = "none"
    /\ updatesInProgress = 0

HealthIdle ==
    /\ healthCheckTimer = 0
    /\ liveIntervals = {}
    /\ timersMade = 0
    /\ _healthVisibilitySetup = FALSE
    /\ listenerAttached = FALSE
    /\ hidden = FALSE
    /\ healthOp = "none"
    /\ performed = FALSE
    /\ destroyed = FALSE
    /\ connectionStatus = "connecting"
    /\ healthPending = 0

FetchIdle ==
    /\ loading = FALSE
    /\ initialLoad = TRUE
    /\ fetchState = [i \in 1..MaxFetch |-> "new"]
    /\ accounts = 0
    /\ models = 0
    /\ modelConfig = 0
    /\ usageHistory = 0
    /\ quotaRows = << >>
    /\ responseModels = "none"
    /\ lastUpdated = 0
    /\ versionFetched = FALSE
    /\ toasts = {}

LogsIdle ==
    /\ logs = << >>
    /\ received = << >>
    /\ arrived = 0
    /\ logLimit = 0
    /\ eventSource = 0
    /\ openStreams = {}
    /\ streamsMade = 0
    /\ reconnectTimers = 0
    /\ errorsSeen = 0
    /\ logsOp = "none"

RefreshIdle ==
    /\ refreshTimer = 0
    /\ liveRefreshTimers = {}
    /\ refreshTimersMade = 0
    /\ refreshInterval = "undefined"
    /\ refreshListener = FALSE
    /\ refreshOp = "none"

AllFamilies == {"claude", "gemini"}

NoModels == [f \in AllFamilies |-> [present |-> FALSE, models |-> << >>]]

\* getInitialState()
getInitialState ==
    /\ timeRange = "24h"
    /\ displayMode = "model"
    /\ selectedFamilies = << >>
    /\ selectedModels = NoModels

FilterIdle ==
    /\ getInitialState
    /\ families = << >>
    /\ dashboard_chart_prefs = << >>
    /\ filterOp = "none"
    /\ trendRequested = FALSE
    /\ userDeselected = {}

MoreIdle == LogsIdle /\ RefreshIdle /\ FilterIdle

FirstIdle == LogIdle /\ ChartIdle /\ HealthIdle /\ FetchIdle

UiIdle == FirstIdle /\ MoreIdle

Init ==
    /\ \E n \in 0..MaxPool :
          _accounts = [i \in 1..n |-> NewAccount(PoolOf(n)[i])]
    /\ _logLen = 0
    /\ _savedToDisk = 0
    /\ tokenCache = {}
    /\ projectCache = {}
    /\ now = 0
    /\ UiIdle
    /\ nSteps = 0
    /\ call = NoCall
    /\ ret = Undefined
    /\ NoErrorYet

\* -------------------------------------------------------------- queries
\* Array.prototype.find on email: index of the first match, 0 for none.
find_FallsBackToFirst(accs, email) ==
    IF \E i \in 1..Len(accs) : accs[i].email = email
    THEN CHOOSE i \in 1..Len(accs) :
            /\ accs[i].email = email
            /\ \A j \in 1..(i - 1) : accs[j].email # email
    ELSE IF Len(accs) > 0 THEN 1 ELSE 0

find(accs, email) ==
    IF \E i \in 1..Len(accs) : accs[i].email = email
    THEN CHOOSE i \in 1..Len(accs) :
            /\ accs[i].email = email
            /\ \A j \in 1..(i - 1) : accs[j].email # email
    ELSE 0

AvailableIn_IgnoresInvalid(accs, model) ==
    SelectSeq(accs, LAMBDA a : a.enabled # FALSE)

\* Never lets a rate-limited account back in, whatever the time is.
AvailableIn_NeverExpires(accs, model) ==
    SelectSeq(accs, LAMBDA a :
        /\ ~a.isInvalid
        /\ a.enabled # FALSE
        /\ ~(call.op = "markRateLimited" /\ call.email = a.email
                                          /\ call.model = model))

\* Returns the eligible accounts last-first.
AvailableIn_Reversed(accs, model) ==
    LET sel == SelectSeq(accs, LAMBDA a : ~a.isInvalid /\ a.enabled # FALSE)
    IN  [k \in 1..Len(sel) |-> sel[Len(sel) + 1 - k]]

AvailableIn(accs, model) ==
    SelectSeq(accs, LAMBDA a : ~a.isInvalid /\ a.enabled # FALSE)

getAvailableAccounts(model) == AvailableIn(_accounts, model)

getAllAccounts == _accounts

AllInvalidIn_NoLengthCheck(accs) ==
    LET enabled == SelectSeq(accs, LAMBDA a : a.enabled # FALSE)
    IN  \A i \in 1..Len(enabled) : enabled[i].isInvalid

\* Reports the pool as lost as soon as one enabled account is invalid.
AllInvalidIn_AnyInvalid(accs) ==
    LET enabled == SelectSeq(accs, LAMBDA a : a.enabled # FALSE)
    IN  Len(enabled) > 0 /\ \E i \in 1..Len(enabled) : enabled[i].isInvalid

AllInvalidIn(accs) ==
    LET enabled == SelectSeq(accs, LAMBDA a : a.enabled # FALSE)
    IN  Len(enabled) > 0 /\ \A i \in 1..Len(enabled) : enabled[i].isInvalid

isAllAccountsInvalid == AllInvalidIn(_accounts)

\* ------------------------------------------------------------- mutators
\* verifyUrl = null default parameter, then verifyUrl || null.
OrNull(v) == IF v \in {Undefined, Null, ""} THEN Null ELSE v

markInvalid_DropsReason(email, reason, verifyUrl) ==
    LET i == find(_accounts, email) IN
    /\ nSteps < MaxSteps
    /\ nSteps' = nSteps + 1
    /\ call' = Call("markInvalid", email, reason, verifyUrl, NullTime, "-")
    /\ IF i = 0
       THEN /\ ret' = "false"
            /\ UNCHANGED <<_accounts, _logLen>>
       ELSE /\ _accounts' = [_accounts EXCEPT
                               ![i].isInvalid     = TRUE,
                               ![i].verifyUrl     = OrNull(verifyUrl),
                               ![i].invalidAt     = now]
            /\ _logLen' = _logLen + 1
            /\ ret' = "true"
    /\ UNCHANGED <<_savedToDisk, tokenCache, projectCache, now>>

\* Writes verifyUrl only when one is given, so an earlier one survives.
markInvalid_KeepsOldVerifyUrl(email, reason, verifyUrl) ==
    LET i == find(_accounts, email) IN
    /\ nSteps < MaxSteps
    /\ nSteps' = nSteps + 1
    /\ call' = Call("markInvalid", email, reason, verifyUrl, NullTime, "-")
    /\ IF i = 0
       THEN /\ ret' = "false"
            /\ UNCHANGED <<_accounts, _logLen>>
       ELSE /\ _accounts' = [_accounts EXCEPT
                               ![i].isInvalid     = TRUE,
                               ![i].invalidReason = reason,
                               ![i].verifyUrl     =
                                   IF OrNull(verifyUrl) = Null
                                   THEN _accounts[i].verifyUrl
                                   ELSE verifyUrl,
                               ![i].invalidAt     = now]
            /\ _logLen' = _logLen + 1
            /\ ret' = "true"
    /\ UNCHANGED <<_savedToDisk, tokenCache, projectCache, now>>

\* Stops after the first two field writes.
markInvalid_PartialWrite(email, reason, verifyUrl) ==
    LET i == find(_accounts, email) IN
    /\ nSteps < MaxSteps
    /\ nSteps' = nSteps + 1
    /\ call' = Call("markInvalid", email, reason, verifyUrl, NullTime, "-")
    /\ IF i = 0
       THEN /\ ret' = "false"
            /\ UNCHANGED <<_accounts, _logLen>>
       ELSE /\ _accounts' = [_accounts EXCEPT
                               ![i].isInvalid     = TRUE,
                               ![i].invalidReason = reason]
            /\ _logLen' = _logLen + 1
            /\ ret' = "true"
    /\ UNCHANGED <<_savedToDisk, tokenCache, projectCache, now>>

\* Also switches the account off while marking it invalid.
markInvalid_AlsoDisables(email, reason, verifyUrl) ==
    LET i == find(_accounts, email) IN
    /\ nSteps < MaxSteps
    /\ nSteps' = nSteps + 1
    /\ call' = Call("markInvalid", email, reason, verifyUrl, NullTime, "-")
    /\ IF i = 0
       THEN /\ ret' = "false"
            /\ UNCHANGED <<_accounts, _logLen>>
       ELSE /\ _accounts' = [_accounts EXCEPT
                               ![i].isInvalid     = TRUE,
                               ![i].invalidReason = reason,
                               ![i].verifyUrl     = OrNull(verifyUrl),
                               ![i].invalidAt     = now,
                               ![i].enabled       = FALSE]
            /\ _logLen' = _logLen + 1
            /\ ret' = "true"
    /\ UNCHANGED <<_savedToDisk, tokenCache, projectCache, now>>

markInvalid(email, reason, verifyUrl) ==
    LET i == find(_accounts, email) IN
    /\ nSteps < MaxSteps
    /\ nSteps' = nSteps + 1
    /\ call' = Call("markInvalid", email, reason, verifyUrl, NullTime, "-")
    /\ IF i = 0
       THEN /\ ret' = "false"
            /\ UNCHANGED <<_accounts, _logLen>>
       ELSE /\ _accounts' = [_accounts EXCEPT
                               ![i].isInvalid     = TRUE,
                               ![i].invalidReason = reason,
                               ![i].verifyUrl     = OrNull(verifyUrl),
                               ![i].invalidAt     = now]
            /\ _logLen' = _logLen + 1
            /\ ret' = "true"
    /\ UNCHANGED <<_savedToDisk, tokenCache, projectCache, now>>

clearInvalid_KeepsVerifyUrl(email) ==
    LET i == find(_accounts, email) IN
    /\ nSteps < MaxSteps
    /\ nSteps' = nSteps + 1
    /\ call' = Call("clearInvalid", email, "-", "-", NullTime, "-")
    /\ IF i = 0
       THEN /\ ret' = "false"
            /\ UNCHANGED <<_accounts, _logLen, _savedToDisk>>
       ELSE /\ _accounts' = [_accounts EXCEPT
                               ![i].isInvalid     = FALSE,
                               ![i].invalidReason = Null]
            /\ _logLen' = _logLen + 1
            /\ _savedToDisk' = _savedToDisk + 1
            /\ ret' = "true"
    /\ UNCHANGED <<tokenCache, projectCache, now>>

clearInvalid_ClearsInvalidAt(email) ==
    LET i == find(_accounts, email) IN
    /\ nSteps < MaxSteps
    /\ nSteps' = nSteps + 1
    /\ call' = Call("clearInvalid", email, "-", "-", NullTime, "-")
    /\ IF i = 0
       THEN /\ ret' = "false"
            /\ UNCHANGED <<_accounts, _logLen, _savedToDisk>>
       ELSE /\ _accounts' = [_accounts EXCEPT
                               ![i].isInvalid     = FALSE,
                               ![i].invalidReason = Null,
                               ![i].verifyUrl     = Null,
                               ![i].invalidAt     = NullTime]
            /\ _logLen' = _logLen + 1
            /\ _savedToDisk' = _savedToDisk + 1
            /\ ret' = "true"
    /\ UNCHANGED <<tokenCache, projectCache, now>>

clearInvalid(email) ==
    LET i == find(_accounts, email) IN
    /\ nSteps < MaxSteps
    /\ nSteps' = nSteps + 1
    /\ call' = Call("clearInvalid", email, "-", "-", NullTime, "-")
    /\ IF i = 0
       THEN /\ ret' = "false"
            /\ UNCHANGED <<_accounts, _logLen, _savedToDisk>>
       ELSE /\ _accounts' = [_accounts EXCEPT
                               ![i].isInvalid     = FALSE,
                               ![i].invalidReason = Null,
                               ![i].verifyUrl     = Null]
            /\ _logLen' = _logLen + 1
            /\ _savedToDisk' = _savedToDisk + 1
            /\ ret' = "true"
    /\ UNCHANGED <<tokenCache, projectCache, now>>

\* A method that only appends to this._log and returns nothing.
LogOnly(c) ==
    /\ nSteps < MaxSteps
    /\ nSteps' = nSteps + 1
    /\ call' = c
    /\ _logLen' = _logLen + 1
    /\ ret' = Undefined
    /\ UNCHANGED <<_accounts, _savedToDisk, tokenCache, projectCache, now>>

\* A method that changes nothing and returns v.
Returns(c, v) ==
    /\ nSteps < MaxSteps
    /\ nSteps' = nSteps + 1
    /\ call' = c
    /\ ret' = v
    /\ UNCHANGED <<_accounts, _logLen, _savedToDisk, tokenCache, projectCache, now>>

markRateLimited(email, resetMs, model) ==
    LogOnly(Call("markRateLimited", email, "-", "-", resetMs, model))

notifySuccess_ClearsInvalid(account, model) ==
    /\ nSteps < MaxSteps
    /\ nSteps' = nSteps + 1
    /\ call' = Call("notifySuccess", account.email, "-", "-", NullTime, model)
    /\ _logLen' = _logLen + 1
    /\ ret' = Undefined
    /\ _accounts' = [i \in 1..Len(_accounts) |->
                       IF _accounts[i].email = account.email
                       THEN [_accounts[i] EXCEPT !.isInvalid = FALSE]
                       ELSE _accounts[i]]
    /\ UNCHANGED <<_savedToDisk, tokenCache, projectCache, now>>

notifySuccess(account, model) ==
    LogOnly(Call("notifySuccess", account.email, "-", "-", NullTime, model))

\* Takes the account out of rotation on a failure.
notifyFailure_MarksInvalid(account, model) ==
    /\ nSteps < MaxSteps
    /\ nSteps' = nSteps + 1
    /\ call' = Call("notifyFailure", account.email, "-", "-", NullTime, model)
    /\ _logLen' = _logLen + 1
    /\ ret' = Undefined
    /\ _accounts' = [i \in 1..Len(_accounts) |->
                       IF _accounts[i].email = account.email
                       THEN [_accounts[i] EXCEPT !.isInvalid = TRUE,
                                                 !.invalidReason = "failure"]
                       ELSE _accounts[i]]
    /\ UNCHANGED <<_savedToDisk, tokenCache, projectCache, now>>

notifyFailure(account, model) ==
    LogOnly(Call("notifyFailure", account.email, "-", "-", NullTime, model))

notifyRateLimit(account, model) ==
    LogOnly(Call("notifyRateLimit", account.email, "-", "-", NullTime, model))

getConsecutiveFailures(email) ==
    Returns(Call("getConsecutiveFailures", email, "-", "-", NullTime, "-"), "0")

incrementConsecutiveFailures(email) ==
    Returns(Call("incrementConsecutiveFailures", email, "-", "-", NullTime, "-"), "1")

saveToDisk ==
    /\ nSteps < MaxSteps
    /\ nSteps' = nSteps + 1
    /\ call' = Call("saveToDisk", "-", "-", "-", NullTime, "-")
    /\ _savedToDisk' = _savedToDisk + 1
    /\ ret' = Undefined
    /\ UNCHANGED <<_accounts, _logLen, tokenCache, projectCache, now>>

clearTokenCache ==
    Returns(Call("clearTokenCache", "-", "-", "-", NullTime, "-"), Undefined)

clearProjectCache ==
    Returns(Call("clearProjectCache", "-", "-", "-", NullTime, "-"), Undefined)

\* ------------------------------------------------------- the environment
\* A step of the test or of a collaborator: counted and recorded like a call.
Step(c) ==
    /\ nSteps < MaxSteps
    /\ nSteps' = nSteps + 1
    /\ call' = c
    /\ ret' = Undefined

\* mgr._accounts[i].enabled = b, the operator's switch written directly.
SetEnabled(i, b) ==
    /\ Step(Call("setEnabled", _accounts[i].email, "-", "-", NullTime, "-"))
    /\ _accounts' = [_accounts EXCEPT ![i].enabled = b]
    /\ UNCHANGED <<_logLen, _savedToDisk, tokenCache, projectCache, now>>

\* A collaborator obtains a token for a pool account and caches it.
CacheToken(email) ==
    /\ Step(Call("cacheToken", email, "-", "-", NullTime, "-"))
    /\ tokenCache' = tokenCache \cup {email}
    /\ UNCHANGED <<_accounts, _logLen, _savedToDisk, projectCache, now>>

\* A collaborator discovers the project of a pool account and caches it.
CacheProject(email) ==
    /\ Step(Call("cacheProject", email, "-", "-", NullTime, "-"))
    /\ projectCache' = projectCache \cup {email}
    /\ UNCHANGED <<_accounts, _logLen, _savedToDisk, tokenCache, now>>

\* JavaScript truthiness of a string-or-null field.
Truthy(v) == v \notin {Undefined, Null, ""}

\* Clears every invalid account, with or without a verifyUrl.
refresh_ClearsAnyInvalid(i) ==
    IF _accounts[i].isInvalid
    THEN clearInvalid(_accounts[i].email)
    ELSE /\ Step(Call("refresh", _accounts[i].email, "-", "-", NullTime, "-"))
         /\ UNCHANGED <<_accounts, _logLen, _savedToDisk, tokenCache,
                        projectCache, now>>

\* The WebUI refresh logic for one account:
\* if (acc.isInvalid && acc.verifyUrl) mgr.clearInvalid(acc.email).
refresh(i) ==
    IF _accounts[i].isInvalid /\ Truthy(_accounts[i].verifyUrl)
    THEN clearInvalid(_accounts[i].email)
    ELSE /\ Step(Call("refresh", _accounts[i].email, "-", "-", NullTime, "-"))
         /\ UNCHANGED <<_accounts, _logLen, _savedToDisk, tokenCache,
                        projectCache, now>>

\* Date.now() advances between two calls.
Tick ==
    /\ now < MaxTime
    /\ nSteps < MaxSteps
    /\ nSteps' = nSteps + 1
    /\ now' = now + 1
    /\ UNCHANGED <<_accounts, _logLen, _savedToDisk, tokenCache, projectCache,
                   call, ret>>

PoolEmails == {_accounts[i].email : i \in 1..Len(_accounts)}

Next ==
    \/ \E e \in EmailArgs(_accounts), r \in Reasons, u \in VerifyUrlArgs :
          markInvalid(e, r, u) /\ UNCHANGED <<clsVars, uiVars>>
    \/ \E e \in EmailArgs(_accounts) : clearInvalid(e) /\ UNCHANGED <<clsVars, uiVars>>
    \/ \E e \in EmailArgs(_accounts), t \in ResetMsArgs, m \in Models :
          markRateLimited(e, t, m) /\ UNCHANGED <<clsVars, uiVars>>
    \/ \E i \in 1..Len(_accounts), m \in Models : notifySuccess(_accounts[i], m) /\ UNCHANGED <<clsVars, uiVars>>
    \/ \E i \in 1..Len(_accounts), m \in Models : notifyFailure(_accounts[i], m) /\ UNCHANGED <<clsVars, uiVars>>
    \/ \E i \in 1..Len(_accounts), m \in Models : notifyRateLimit(_accounts[i], m) /\ UNCHANGED <<clsVars, uiVars>>
    \/ \E e \in EmailArgs(_accounts) : getConsecutiveFailures(e) /\ UNCHANGED <<clsVars, uiVars>>
    \/ \E e \in EmailArgs(_accounts) : incrementConsecutiveFailures(e) /\ UNCHANGED <<clsVars, uiVars>>
    \/ saveToDisk /\ UNCHANGED <<clsVars, uiVars>>
    \/ clearTokenCache /\ UNCHANGED <<clsVars, uiVars>>
    \/ clearProjectCache /\ UNCHANGED <<clsVars, uiVars>>
    \/ \E i \in 1..Len(_accounts), b \in BOOLEAN : SetEnabled(i, b) /\ UNCHANGED <<clsVars, uiVars>>
    \/ \E i \in 1..Len(_accounts) : refresh(i) /\ UNCHANGED <<clsVars, uiVars>>
    \/ Tick /\ UNCHANGED <<clsVars, uiVars>>

Spec == Init /\ [][Next]_vars

\* The manager together with the collaborators that fill the caches.
NextCache ==
    \/ Next
    \/ \E e \in PoolEmails : CacheToken(e) /\ UNCHANGED <<clsVars, uiVars>>
    \/ \E e \in PoolEmails : CacheProject(e) /\ UNCHANGED <<clsVars, uiVars>>

SpecCache == Init /\ [][NextCache]_vars

\* ------------------------------------------------------ error classifier
\* An upstream error body is a sequence of the phrases it is made of.
Phrases ==
    {"403", "PERMISSION_DENIED", "Permission denied", "Forbidden",
     "Access denied", "VALIDATION_REQUIRED", "Validation_Required",
     "ACCOUNT_DISABLED", "user_disabled", "invalid_grant",
     "MODEL_CAPACITY_EXHAUSTED", "RESOURCE_EXHAUSTED", "ACCOUNT_FORBIDDEN",
     "https://accounts.google.com/signin/continue?sarp=1"}

RECURSIVE TextsOfLen(_)
TextsOfLen(n) ==
    IF n = 0 THEN {<< >>}
    ELSE {Append(t, p) : t \in TextsOfLen(n - 1), p \in Phrases}

ErrorTexts == UNION {TextsOfLen(n) : n \in 0..MaxTokens}

\* String.prototype.toLowerCase, phrase by phrase.
toLowerCase(p) ==
    CASE p = "PERMISSION_DENIED"        -> "permission_denied"
      [] p = "Permission denied"        -> "permission denied"
      [] p = "Forbidden"                -> "forbidden"
      [] p = "Access denied"            -> "access denied"
      [] p = "VALIDATION_REQUIRED"      -> "validation_required"
      [] p = "Validation_Required"      -> "validation_required"
      [] p = "ACCOUNT_DISABLED"         -> "account_disabled"
      [] p = "MODEL_CAPACITY_EXHAUSTED" -> "model_capacity_exhausted"
      [] p = "RESOURCE_EXHAUSTED"       -> "resource_exhausted"
      [] p = "ACCOUNT_FORBIDDEN"        -> "account_forbidden"
      [] p = "API error 403:"           -> "api error 403:"
      [] p = "USER_DISABLED"            -> "user_disabled"
      [] p = "User_Disabled"            -> "user_disabled"
      [] p = "Account_Disabled"         -> "account_disabled"
      [] p = "AUTH_INVALID"             -> "auth_invalid"
      [] p = "Visit"                    -> "visit"
      [] OTHER                          -> p

\* text.toLowerCase().includes(marker)
includes(text, marker) ==
    \E i \in 1..Len(text) : toLowerCase(text[i]) = marker

\* Also matches the generic PERMISSION_DENIED status.
isPermanentAuthFailure_MatchesPermissionDenied(text) ==
    \/ includes(text, "invalid_grant")
    \/ includes(text, "permission_denied")

\* Looks for the markers as they are spelled in upper case only.
isValidationRequired_CaseSensitive(text) ==
    \E i \in 1..Len(text) :
        text[i] \in {"VALIDATION_REQUIRED", "ACCOUNT_DISABLED", "USER_DISABLED"}

isValidationRequired(text) ==
    \/ includes(text, "validation_required")
    \/ includes(text, "account_disabled")
    \/ includes(text, "user_disabled")

isPermanentAuthFailure(text) == includes(text, "invalid_grant")

isModelCapacityExhausted(text) == includes(text, "model_capacity_exhausted")

\* ---- bodies as raw text: words, white space, URL pieces, punctuation
\* JavaScript null given where a body is expected.
NullText == <<"(null)">>

Sp == " "

\* The words of a body with white space between them.
RECURSIVE Spaced(_)
Spaced(words) ==
    IF Len(words) <= 1 THEN words
    ELSE <<words[1], Sp>> \o Spaced(Tail(words))

BodyWords ==
    Phrases \cup {"USER_DISABLED", "User_Disabled", "account_disabled",
                  "Account_Disabled", "validation_required", "429",
                  "AUTH_INVALID"}

RECURSIVE WordsOfLen(_)
WordsOfLen(n) ==
    IF n = 0 THEN {<< >>}
    ELSE {Append(t, w) : t \in WordsOfLen(n - 1), w \in BodyWords}

BodyTexts == UNION {WordsOfLen(n) : n \in 0..MaxTokens}

FreeTexts == {Spaced(t) : t \in BodyTexts}

VerificationUrl == <<"https://accounts.google.com/signin/continue?sarp=1">>
NestedUrl ==
    VerificationUrl \o <<"&continue=https://aistudio", ".", "google", ".", "com">>
OtherUrl == <<"https://aistudio", ".", "google", ".", "com">>

\* Characters a payload puts right after a URL.
TrailChars == {"]", ">", "}", "\"", "."}

RECURSIVE TrailsOfLen(_)
TrailsOfLen(n) ==
    IF n = 0 THEN {<< >>}
    ELSE {Append(t, c) : t \in TrailsOfLen(n - 1), c \in TrailChars}

Trails == UNION {TrailsOfLen(n) : n \in 0..MaxTrail}

\* A URL inside free text or inside a small payload.
UrlTexts ==
    {pre \o u \o tr \o post :
        pre  \in {<< >>, <<"Visit", Sp>>, <<"[">>, <<"<">>, <<"{\"url\":\"">>},
        u    \in {VerificationUrl, NestedUrl, OtherUrl},
        tr   \in Trails,
        post \in {<< >>, <<Sp, "to verify">>}}

\* JSON.stringify of an error payload with a message and, when given, an
\* error-detail reason and a metadata validation_url; not closed when the
\* payload was cut short.
Json(message, reason, url, closed) ==
    <<"{", "\"message\":\"">> \o message \o <<"\"">>
    \o (IF reason = "" THEN << >> ELSE <<"\"reason\":\"", reason, "\"">>)
    \o (IF url = << >> THEN << >>
        ELSE <<"\"validation_url\":\"">> \o url \o <<"\"">>)
    \o (IF closed THEN <<"}">> ELSE << >>)

JsonTexts ==
    {Json(m, r, u, c) :
        m \in WordsOfLen(0) \cup WordsOfLen(1),
        r \in {"", "VALIDATION_REQUIRED", "validation_required",
               "Account_Disabled", "USER_DISABLED", "RATE_LIMIT_EXCEEDED"},
        u \in {<< >>, VerificationUrl, NestedUrl \o <<".">>},
        c \in BOOLEAN}

ClassifyInputs == {NullText} \cup FreeTexts \cup UrlTexts \cup JsonTexts

\* JSON.parse(text) succeeds.
parses(text) ==
    /\ Len(text) >= 3
    /\ text[Len(text)] = "}"
    /\ text[Len(text) - 1] = "\""
    /\ \/ text[1] = "{" /\ text[2] = "\"message\":\""
       \/ /\ text[1] = "{\"url\":\""
          /\ \A i \in 2..(Len(text) - 2) : text[i] # "\""

\* Without the guard a null body reaches the string methods.
OrEmpty_NoGuard(text) == text

\* errorText || ''
OrEmpty(text) == IF text = NullText THEN << >> ELSE text

\* The string value that starts after position i and ends at the next quote.
valueAfter(text, i) ==
    LET close == {j \in (i + 1)..Len(text) : text[j] = "\""}
        j     == CHOOSE j \in close : \A k \in close : j <= k
    IN  SubSeq(text, i + 1, j - 1)

\* The validation_url of a parsed error detail whose reason is
\* VALIDATION_REQUIRED; empty when there is none.
structuredValidationUrl(text) ==
    IF /\ parses(text)
       /\ \E i \in 1..(Len(text) - 1) :
             /\ text[i] = "\"reason\":\""
             /\ toLowerCase(text[i + 1]) = "validation_required"
       /\ \E k \in 1..Len(text) : text[k] = "\"validation_url\":\""
    THEN valueAfter(text, CHOOSE k \in 1..Len(text) :
                                text[k] = "\"validation_url\":\"")
    ELSE << >>

\* Cuts the URL at its first dot.
trimTrailing_CutsAtDot(run) ==
    LET dots == {i \in 1..Len(run) : run[i] = "."} IN
    IF dots = {} THEN run
    ELSE SubSeq(run, 1, (CHOOSE i \in dots : \A j \in dots : i <= j) - 1)

\* Drops the payload punctuation at the end of a matched URL.
RECURSIVE trimTrailing(_)
trimTrailing(run) ==
    IF run # << >> /\ run[Len(run)] \in TrailChars
    THEN trimTrailing(SubSeq(run, 1, Len(run) - 1))
    ELSE run

\* Matches any https URL, not only one of the verification domain.
scanVerificationUrl_AnyUrl(text) ==
    LET starts == {i \in 1..Len(text) :
                      text[i] \in {VerificationUrl[1], OtherUrl[1]}}
    IN  IF starts = {} THEN << >>
        ELSE LET i    == CHOOSE i \in starts : \A k \in starts : i <= k
                 ends == {j \in i..Len(text) :
                             \A k \in i..j : text[k] \notin {Sp, "\""}}
                 j    == CHOOSE j \in ends : \A k \in ends : k <= j
             IN  trimTrailing(SubSeq(text, i, j))

\* The first URL of the verification domain in the text, up to the next
\* white space or quote, without its trailing punctuation; empty when there
\* is none.
scanVerificationUrl(text) ==
    LET starts == {i \in 1..Len(text) : text[i] = VerificationUrl[1]}
    IN  IF starts = {} THEN << >>
        ELSE LET i    == CHOOSE i \in starts : \A k \in starts : i <= k
                 ends == {j \in i..Len(text) :
                             \A k \in i..j : text[k] \notin {Sp, "\""}}
                 j    == CHOOSE j \in ends : \A k \in ends : k <= j
             IN  trimTrailing(SubSeq(text, i, j))

\* Trims the structured URL like a scanned one.
extractVerificationUrlText_TrimsStructured(text) ==
    IF structuredValidationUrl(text) # << >>
    THEN trimTrailing(structuredValidationUrl(text))
    ELSE scanVerificationUrl(text)

\* extractVerificationUrl on raw text; the empty result stands for null.
extractVerificationUrlText(text) ==
    IF structuredValidationUrl(text) # << >>
    THEN structuredValidationUrl(text)
    ELSE scanVerificationUrl(text)

\* The first verification URL in the body, or null.
extractVerificationUrl(text) ==
    LET url == extractVerificationUrlText(Spaced(text)) IN
    IF url = << >> THEN Null ELSE url[1]

\* new AccountForbiddenError(message, accountEmail)
AccountForbiddenError(message, accountEmail) ==
    [name |-> "AccountForbiddenError", code |-> "ACCOUNT_FORBIDDEN",
     message |-> message, accountEmail |-> accountEmail]

\* new Error(message)
Error(message) ==
    [name |-> "Error", code |-> Undefined, message |-> message,
     accountEmail |-> Undefined]

\* Also takes the generic word Forbidden for the marker.
isAccountForbiddenError_MatchesForbidden(error) ==
    \/ error.name = "AccountForbiddenError"
    \/ includes(error.message, "account_forbidden")
    \/ includes(error.message, "forbidden")

isAccountForbiddenError(error) ==
    \/ error.name = "AccountForbiddenError"
    \/ includes(error.message, "account_forbidden")

isRateLimitError(error) ==
    \/ includes(error.message, "429")
    \/ includes(error.message, "resource_exhausted")

isAuthError(error) == includes(error.message, "auth_invalid")

Classify(text, error) ==
    [isValidationRequired     |-> isValidationRequired(text),
     isPermanentAuthFailure   |-> isPermanentAuthFailure(text),
     isModelCapacityExhausted |-> isModelCapacityExhausted(text),
     isAccountForbiddenError  |-> isAccountForbiddenError(error),
     isRateLimitError         |-> isRateLimitError(error),
     isAuthError              |-> isAuthError(error)]

\* Rotates the account on every 403, whatever the body says.
handle403_MarksOnAny403 ==
    LET available == getAvailableAccounts(Undefined) IN
    /\ err = NoErr
    /\ Len(available) > 0
    /\ LET account == available[1]
           error   == AccountForbiddenError(errorText, account.email)
       IN  /\ markInvalid(account.email, "Account requires verification",
                          extractVerificationUrl(errorText))
           /\ err' = error
           /\ verdict' = Classify(errorText, error)
    /\ UNCHANGED <<errorText, outcome, extracted, uiVars>>

\* What the handler does with the body of a 403 from the account it used.
handle403 ==
    LET available == getAvailableAccounts(Undefined) IN
    /\ err = NoErr
    /\ Len(available) > 0
    /\ LET account == available[1] IN
       IF isValidationRequired(errorText)
       THEN LET error == AccountForbiddenError(errorText, account.email) IN
            /\ markInvalid(account.email, "Account requires verification",
                           extractVerificationUrl(errorText))
            /\ err' = error
            /\ verdict' = Classify(errorText, error)
       ELSE LET error == Error(<<"API error 403:">> \o errorText) IN
            /\ Step(Call("handle403", account.email, "-", "-", NullTime, "-"))
            /\ UNCHANGED <<_accounts, _logLen, _savedToDisk, tokenCache,
                           projectCache, now>>
            /\ err' = error
            /\ verdict' = Classify(errorText, error)
    /\ UNCHANGED <<errorText, outcome, extracted, uiVars>>

\* A pool and an upstream 403 body the handler has not looked at yet.
InitHandler ==
    /\ \E n \in 0..MaxPool :
          _accounts = [i \in 1..n |-> NewAccount(PoolOf(n)[i])]
    /\ _logLen = 0
    /\ _savedToDisk = 0
    /\ tokenCache = {}
    /\ projectCache = {}
    /\ now = 0
    /\ UiIdle
    /\ nSteps = 0
    /\ call = NoCall
    /\ ret = Undefined
    /\ errorText \in ErrorTexts
    /\ err = NoErr
    /\ verdict = NoVerdict
    /\ NotClassified

NextHandler == handle403

SpecHandler == InitHandler /\ [][NextHandler]_vars

\* ---- the classification functions called on their own
ErrorInputs ==
    {AccountForbiddenError(m, e) : m \in BodyTexts,
                                   e \in {AllEmails[4], Undefined}}
    \cup {Error(m) : m \in BodyTexts}

\* The detectors and extractVerificationUrl applied to one body.
classifyBody ==
    LET text == OrEmpty(errorText) IN
    /\ outcome = "none"
    /\ err = NoErr
    /\ IF text = NullText
       THEN /\ outcome' = "threw"
            /\ verdict' = NoVerdict
            /\ extracted' = << >>
       ELSE /\ outcome' = "returned"
            /\ verdict' = Classify(text, NoErr)
            /\ extracted' = extractVerificationUrlText(text)
    /\ UNCHANGED <<_accounts, _logLen, _savedToDisk, tokenCache, projectCache,
                   now, nSteps, call, ret, errorText, err, uiVars>>

\* The error predicates applied to one error value.
classifyError ==
    /\ outcome = "none"
    /\ err # NoErr
    /\ outcome' = "returned"
    /\ verdict' = Classify(<< >>, err)
    /\ extracted' = << >>
    /\ UNCHANGED <<_accounts, _logLen, _savedToDisk, tokenCache, projectCache,
                   now, nSteps, call, ret, errorText, err, uiVars>>

\* A body, or an error value, the functions have not been applied to yet.
InitClassify ==
    /\ _accounts = << >>
    /\ _logLen = 0
    /\ _savedToDisk = 0
    /\ tokenCache = {}
    /\ projectCache = {}
    /\ now = 0
    /\ UiIdle
    /\ nSteps = 0
    /\ call = NoCall
    /\ ret = Undefined
    /\ \/ errorText \in ClassifyInputs /\ err = NoErr
       \/ errorText = << >> /\ err \in ErrorInputs
    /\ verdict = NoVerdict
    /\ NotClassified

NextClassify ==
    \/ classifyBody
    \/ classifyError

SpecClassify == InitClassify /\ [][NextClassify]_vars

\* The scenario pool of three accounts, [A, B, C], all healthy.
ScenarioPool == 3

InitPool3 ==
    /\ _accounts = [i \in 1..ScenarioPool |-> NewAccount(AllEmails[i])]
    /\ _logLen = 0
    /\ _savedToDisk = 0
    /\ tokenCache = {}
    /\ projectCache = {}
    /\ now = 0
    /\ UiIdle
    /\ nSteps = 0
    /\ call = NoCall
    /\ ret = Undefined
    /\ NoErrorYet

SpecPool3 == InitPool3 /\ [][Next]_vars

\* ================================================== the web UI's logger
\* No pool and no upstream error: the page runs in the browser.
PoolIdle ==
    /\ _accounts = << >>
    /\ _logLen = 0
    /\ _savedToDisk = 0
    /\ tokenCache = {}
    /\ projectCache = {}
    /\ now = 0
    /\ nSteps = 0
    /\ call = NoCall
    /\ ret = Undefined
    /\ NoErrorYet

poolVars == <<_accounts, _logLen, _savedToDisk, tokenCache, projectCache,
              now, nSteps, call, ret, clsVars>>

\* isDebugEnabled(): the URL parameter first, then localStorage, false when
\* localStorage throws.
isDebugEnabled ==
    IF urlDebug THEN TRUE
    ELSE IF storageThrows THEN FALSE
    ELSE ag_debug = "true"

\* One call of a UILogger method that leaves the debug state alone.
Logged(method, out, result) ==
    /\ uiCall' = method
    /\ consoleOut' = out
    /\ uiRet' = result
    /\ UNCHANGED <<debugEnabled, ag_debug, urlDebug, storageThrows, lastSet>>

UILogger_refresh ==
    /\ debugEnabled' = isDebugEnabled
    /\ lastSet' = isDebugEnabled
    /\ uiCall' = "refresh"
    /\ consoleOut' = << >>
    /\ uiRet' = Undefined
    /\ UNCHANGED <<ag_debug, urlDebug, storageThrows>>

UILogger_enableDebug ==
    /\ uiCall' = "enableDebug"
    /\ uiRet' = Undefined
    /\ IF storageThrows
       THEN /\ consoleOut' = <<"warn">>
            /\ UNCHANGED <<debugEnabled, ag_debug, lastSet>>
       ELSE /\ ag_debug' = "true"
            /\ debugEnabled' = TRUE
            /\ lastSet' = TRUE
            /\ consoleOut' = <<"info">>
    /\ UNCHANGED <<urlDebug, storageThrows>>

UILogger_disableDebug ==
    /\ uiCall' = "disableDebug"
    /\ uiRet' = Undefined
    /\ IF storageThrows
       THEN /\ consoleOut' = << >>
            /\ UNCHANGED <<debugEnabled, ag_debug, lastSet>>
       ELSE /\ ag_debug' = Null
            /\ debugEnabled' = FALSE
            /\ lastSet' = FALSE
            /\ consoleOut' = <<"info">>
    /\ UNCHANGED <<urlDebug, storageThrows>>

UILogger_isDebug ==
    Logged("isDebug", << >>, IF debugEnabled THEN "true" ELSE "false")

UILogger_debug ==
    Logged("debug", IF debugEnabled THEN <<"log">> ELSE << >>, Undefined)

UILogger_info ==
    Logged("info", IF debugEnabled THEN <<"info">> ELSE << >>, Undefined)

UILogger_log ==
    Logged("log", IF debugEnabled THEN <<"log">> ELSE << >>, Undefined)

UILogger_warn ==
    Logged("warn", IF debugEnabled THEN <<"warn">> ELSE << >>, Undefined)

UILogger_warnAlways ==
    Logged("warnAlways", <<"warn">>, Undefined)

UILogger_error ==
    Logged("error", <<"error">>, Undefined)

\* The user sets the item in the browser console, as the module's header
\* describes ('true' to enable, 'false' to disable).
setItem(v) ==
    /\ ~storageThrows
    /\ ag_debug' = v
    /\ UNCHANGED <<debugEnabled, urlDebug, storageThrows, uiCall, consoleOut,
                   uiRet, lastSet>>

\* The page has loaded the script: the state is read once, and announced
\* when it is on.
InitLogger ==
    /\ PoolIdle
    /\ ChartIdle
    /\ HealthIdle
    /\ FetchIdle
    /\ MoreIdle
    /\ ag_debug \in {Null, "true", "false"}
    /\ urlDebug \in BOOLEAN
    /\ storageThrows \in BOOLEAN
    /\ debugEnabled = isDebugEnabled
    /\ lastSet = isDebugEnabled
    /\ uiCall = "none"
    /\ consoleOut = IF isDebugEnabled THEN <<"info">> ELSE << >>
    /\ uiRet = Undefined

NextLogger ==
    \/ UILogger_refresh /\ UNCHANGED <<poolVars, chartVars, healthVars, fetchVars, moreVars>>
    \/ UILogger_enableDebug /\ UNCHANGED <<poolVars, chartVars, healthVars, fetchVars, moreVars>>
    \/ UILogger_disableDebug /\ UNCHANGED <<poolVars, chartVars, healthVars, fetchVars, moreVars>>
    \/ UILogger_isDebug /\ UNCHANGED <<poolVars, chartVars, healthVars, fetchVars, moreVars>>
    \/ UILogger_debug /\ UNCHANGED <<poolVars, chartVars, healthVars, fetchVars, moreVars>>
    \/ UILogger_info /\ UNCHANGED <<poolVars, chartVars, healthVars, fetchVars, moreVars>>
    \/ UILogger_log /\ UNCHANGED <<poolVars, chartVars, healthVars, fetchVars, moreVars>>
    \/ UILogger_warn /\ UNCHANGED <<poolVars, chartVars, healthVars, fetchVars, moreVars>>
    \/ UILogger_warnAlways /\ UNCHANGED <<poolVars, chartVars, healthVars, fetchVars, moreVars>>
    \/ UILogger_error /\ UNCHANGED <<poolVars, chartVars, healthVars, fetchVars, moreVars>>
    \/ \E v \in {"true", "false"} : setItem(v) /\ UNCHANGED <<poolVars, chartVars, healthVars, fetchVars, moreVars>>

SpecLogger == InitLogger /\ [][NextLogger]_vars

\* ======================================== the dashboard's trend chart
envVars == <<canvasPresent, chartJsLoaded, canvasReady, historyEmpty>>

\* The test at the head of updateTrendChart.
lockHeld_Never == FALSE

lockHeld == _trendChartUpdateLock

\* The call leaves the update body: by a return (the lock is released) or
\* by an exception that nothing catches (the lock is left as it is).
Leave(how) ==
    /\ trendPc' = "idle"
    /\ trendRet' = how
    /\ updatesInProgress' = updatesInProgress - 1
    /\ _trendChartUpdateLock' =
          (IF how = "returned" THEN FALSE ELSE _trendChartUpdateLock)

Goto(pc) ==
    /\ trendPc' = pc
    /\ UNCHANGED <<_trendChartUpdateLock, trendRet, updatesInProgress>>

\* updateTrendChart(component) is called: skipped while the lock is held,
\* else the lock is taken and the body entered. A call can come while a
\* body is running (from a callback the body triggers) or between bodies.
updateTrendChart ==
    /\ trendOp' = "call"
    /\ IF lockHeld
       THEN /\ trendRet' = "skipped"
            /\ UNCHANGED <<_trendChartUpdateLock, trendPc,
                           updatesInProgress>>
       ELSE /\ chartsMade < MaxCharts
            /\ _trendChartUpdateLock' = TRUE
            /\ trendPc' = "destroy"
            /\ trendRet' = "running"
            /\ updatesInProgress' = updatesInProgress + 1
    /\ UNCHANGED <<envVars, _chartInstance, usageTrend,
                   hasFilteredTrendData, liveCharts, chartsMade>>

\* FORCE DESTROY: the chart on the canvas property, the one in Chart.js's
\* registry and the one in the component state are stopped and destroyed
\* (an exception of stop/destroy is swallowed) and the references nulled.
destroyOld(throws) ==
    /\ trendPc = "destroy"
    /\ trendOp' = "destroyOld"
    /\ _chartInstance' = IF canvasPresent THEN 0 ELSE _chartInstance
    /\ usageTrend' = 0
    /\ liveCharts' =
          IF throws THEN liveCharts
          ELSE IF canvasPresent /\ chartJsLoaded THEN {}
          ELSE liveCharts \ ({usageTrend}
                  \cup (IF canvasPresent THEN {_chartInstance} ELSE {}))
    /\ Goto("checks")
    /\ UNCHANGED <<envVars, hasFilteredTrendData, chartsMade>>

\* The safety checks and the filtering of the history: each failed check
\* releases the lock and returns; getFilteredHistoryData is called outside
\* any try block.
safetyChecks(filterThrows) ==
    /\ trendPc = "checks"
    /\ trendOp' = "safetyChecks"
    /\ IF ~canvasPresent \/ ~chartJsLoaded \/ ~canvasReady
       THEN Leave("returned") /\ UNCHANGED hasFilteredTrendData
       ELSE IF filterThrows
       THEN Leave("threw") /\ UNCHANGED hasFilteredTrendData
       ELSE IF historyEmpty
       THEN Leave("returned") /\ hasFilteredTrendData' = FALSE
       ELSE Goto("datasets") /\ hasFilteredTrendData' = TRUE
    /\ UNCHANGED <<envVars, _chartInstance, usageTrend, liveCharts,
                   chartsMade>>

\* Labels and datasets are built, outside any try block.
buildDatasets(throws) ==
    /\ trendPc = "datasets"
    /\ trendOp' = "buildDatasets"
    /\ IF throws THEN Leave("threw") ELSE Goto("create")
    /\ UNCHANGED <<envVars, _chartInstance, usageTrend,
                   hasFilteredTrendData, liveCharts, chartsMade>>

\* try { new Chart(...); save the instance } catch { log } finally
\* { release the lock }.
createChart(throws) ==
    /\ trendPc = "create"
    /\ trendOp' = "createChart"
    /\ IF throws
       THEN UNCHANGED <<_chartInstance, usageTrend, liveCharts, chartsMade>>
       ELSE /\ chartsMade' = chartsMade + 1
            /\ liveCharts' = liveCharts \cup {chartsMade + 1}
            /\ _chartInstance' = chartsMade + 1
            /\ usageTrend' = chartsMade + 1
    /\ Leave("returned")
    /\ UNCHANGED <<envVars, hasFilteredTrendData>>

\* The dashboard page as updateTrendChart finds it.
InitChart ==
    /\ PoolIdle
    /\ LogIdle
    /\ HealthIdle
    /\ FetchIdle
    /\ MoreIdle
    /\ _trendChartUpdateLock = FALSE
    /\ canvasPresent \in BOOLEAN
    /\ chartJsLoaded \in BOOLEAN
    /\ canvasReady \in {r \in BOOLEAN : r => canvasPresent}
    /\ historyEmpty \in BOOLEAN
    /\ _chartInstance = 0
    /\ usageTrend = 0
    /\ hasFilteredTrendData \in BOOLEAN
    /\ liveCharts = {}
    /\ chartsMade = 0
    /\ trendPc = "idle"
    /\ trendOp = "none"
    /\ trendRet = "none"
    /\ updatesInProgress = 0

NextChart ==
    \/ updateTrendChart /\ UNCHANGED <<poolVars, logVars, healthVars, fetchVars, moreVars>>
    \/ \E t \in BOOLEAN : destroyOld(t) /\ UNCHANGED <<poolVars, logVars, healthVars, fetchVars, moreVars>>
    \/ \E t \in BOOLEAN : safetyChecks(t) /\ UNCHANGED <<poolVars, logVars, healthVars, fetchVars, moreVars>>
    \/ \E t \in BOOLEAN : buildDatasets(t) /\ UNCHANGED <<poolVars, logVars, healthVars, fetchVars, moreVars>>
    \/ \E t \in BOOLEAN : createChart(t) /\ UNCHANGED <<poolVars, logVars, healthVars, fetchVars, moreVars>>

SpecChart == InitChart /\ [][NextChart]_vars

\* =============================== the data store's connection monitoring
clearInterval_Noop(live, id) == live

clearInterval(live, id) == live \ {id}

\* performHealthCheck() is invoked: a request to /api/config leaves; its
\* response sets connectionStatus later.
performHealthCheck ==
    /\ healthPending < MaxPending
    /\ healthPending' = healthPending + 1
    /\ performed' = TRUE

NoHealthCheck ==
    /\ performed' = FALSE
    /\ UNCHANGED healthPending

\* The body of startHealthCheck: the existing timer is cleared, the
\* visibility listener registered on the first call, a health check
\* performed at once, and a new interval created.
startHealthCheckBody ==
    /\ timersMade < MaxTimers
    /\ liveIntervals' =
          (IF healthCheckTimer # 0
              THEN clearInterval(liveIntervals, healthCheckTimer)
              ELSE liveIntervals) \cup {timersMade + 1}
    /\ _healthVisibilitySetup' = TRUE
    /\ listenerAttached' = (IF ~_healthVisibilitySetup THEN TRUE
                                                       ELSE listenerAttached)
    /\ performHealthCheck
    /\ healthCheckTimer' = timersMade + 1
    /\ timersMade' = timersMade + 1

\* The body of stopHealthCheck.
stopHealthCheckBody ==
    /\ IF healthCheckTimer # 0
       THEN /\ liveIntervals' = clearInterval(liveIntervals, healthCheckTimer)
            /\ healthCheckTimer' = 0
       ELSE UNCHANGED <<liveIntervals, healthCheckTimer>>
    /\ NoHealthCheck
    /\ UNCHANGED timersMade

\* Alpine calls init() once, when the store is registered.
init ==
    /\ healthOp = "none"
    /\ healthOp' = "init"
    /\ startHealthCheckBody
    /\ UNCHANGED <<hidden, destroyed, connectionStatus>>

startHealthCheck ==
    /\ healthOp # "none"
    /\ healthOp' = "startHealthCheck"
    /\ startHealthCheckBody
    /\ UNCHANGED <<hidden, destroyed, connectionStatus>>

stopHealthCheck ==
    /\ healthOp # "none"
    /\ healthOp' = "stopHealthCheck"
    /\ stopHealthCheckBody
    /\ UNCHANGED <<_healthVisibilitySetup, listenerAttached, hidden,
                   destroyed, connectionStatus>>

destroy ==
    /\ healthOp # "none"
    /\ healthOp' = "destroy"
    /\ stopHealthCheckBody
    /\ listenerAttached' = (IF _healthVisibilitySetup THEN FALSE
                                                      ELSE listenerAttached)
    /\ destroyed' = TRUE
    /\ UNCHANGED <<_healthVisibilitySetup, hidden, connectionStatus>>

\* The tab is hidden or shown; the browser runs the registered handler.
visibilitychange ==
    /\ healthOp # "none"
    /\ healthOp' = "visibilitychange"
    /\ hidden' = ~hidden
    /\ IF listenerAttached
       THEN IF hidden'
            THEN /\ stopHealthCheckBody
                 /\ UNCHANGED <<_healthVisibilitySetup, listenerAttached>>
            ELSE startHealthCheckBody
       ELSE /\ NoHealthCheck
            /\ UNCHANGED <<healthCheckTimer, liveIntervals, timersMade,
                           _healthVisibilitySetup, listenerAttached>>
    /\ UNCHANGED <<destroyed, connectionStatus>>

\* A live interval fires, every 15 seconds.
healthTick(id) ==
    /\ id \in liveIntervals
    /\ healthOp' = "tick"
    /\ IF ~hidden THEN performHealthCheck ELSE NoHealthCheck
    /\ UNCHANGED <<healthCheckTimer, liveIntervals, timersMade,
                   _healthVisibilitySetup, listenerAttached, hidden,
                   destroyed, connectionStatus>>

\* The response to a health request arrives (ok or not), or the request
\* fails.
healthResponse(ok) ==
    /\ healthPending > 0
    /\ healthPending' = healthPending - 1
    /\ connectionStatus' = (IF ok THEN "connected" ELSE "disconnected")
    /\ healthOp' = "response"
    /\ performed' = FALSE
    /\ UNCHANGED <<healthCheckTimer, liveIntervals, timersMade,
                   _healthVisibilitySetup, listenerAttached, hidden,
                   destroyed>>

\* The store as its literal defines it, in a tab that is shown or hidden.
InitHealth ==
    /\ PoolIdle
    /\ LogIdle
    /\ ChartIdle
    /\ FetchIdle
    /\ MoreIdle
    /\ healthCheckTimer = 0
    /\ liveIntervals = {}
    /\ timersMade = 0
    /\ _healthVisibilitySetup = FALSE
    /\ listenerAttached = FALSE
    /\ hidden \in BOOLEAN
    /\ healthOp = "none"
    /\ performed = FALSE
    /\ destroyed = FALSE
    /\ connectionStatus = "connecting"
    /\ healthPending = 0

NextHealth ==
    \/ init /\ UNCHANGED <<poolVars, logVars, chartVars, fetchVars, moreVars>>
    \/ startHealthCheck /\ UNCHANGED <<poolVars, logVars, chartVars, fetchVars, moreVars>>
    \/ stopHealthCheck /\ UNCHANGED <<poolVars, logVars, chartVars, fetchVars, moreVars>>
    \/ destroy /\ UNCHANGED <<poolVars, logVars, chartVars, fetchVars, moreVars>>
    \/ visibilitychange /\ UNCHANGED <<poolVars, logVars, chartVars, fetchVars, moreVars>>
    \/ \E id \in 1..MaxTimers :
          healthTick(id) /\ UNCHANGED <<poolVars, logVars, chartVars, fetchVars, moreVars>>
    \/ \E ok \in BOOLEAN :
          healthResponse(ok) /\ UNCHANGED <<poolVars, logVars, chartVars, fetchVars, moreVars>>

SpecHealth == InitHealth /\ [][NextHealth]_vars

\* ============================================ the data store's fetchData
\* The test that decides whether the skeleton screen is shown.
showSkeleton_Always == TRUE

showSkeleton == initialLoad

\* catch { toast } finally { loading = false; initialLoad = false }
fetchFailed(i) ==
    /\ toasts' = toasts \cup {i}
    /\ loading' = FALSE
    /\ initialLoad' = FALSE
    /\ fetchState' = [fetchState EXCEPT ![i] = "ended"]
    /\ UNCHANGED <<dataVars, responseModels, versionFetched>>

\* fetchData() is called (by the app's init, its refresh button or its
\* auto-refresh timer) and runs up to its first await.
fetchData(i) ==
    /\ fetchState[i] = "new"
    /\ \A j \in 1..(i - 1) : fetchState[j] # "new"
    /\ loading' = (IF showSkeleton THEN TRUE ELSE loading)
    /\ fetchState' = [fetchState EXCEPT ![i] = "request"]
    /\ UNCHANGED <<initialLoad, dataVars, responseModels, versionFetched,
                   toasts>>

\* window.utils.request settles: with an ok response, with a response that
\* is not ok, or with an exception.
fetchResponse(i, result) ==
    /\ fetchState[i] = "request"
    /\ IF result = "ok"
       THEN /\ fetchState' = [fetchState EXCEPT ![i] = "json"]
            /\ UNCHANGED <<loading, initialLoad, dataVars, responseModels,
                           versionFetched, toasts>>
       ELSE fetchFailed(i)

\* if (data.models && data.models.length > 0) this.models = data.models
storeModels_Always(current, i, kind) == IF kind = "some" THEN i ELSE 0

storeModels(current, i, kind) == IF kind = "some" THEN i ELSE current

\* computeQuotaRows(): the rows are rebuilt from the models, their
\* configuration and the accounts.
computeQuotaRows(m, c, a) == <<m, c, a>>

\* response.json() settles: parsing failed, or the data is stored. The
\* response carries a models list (missing, empty or with entries) and may
\* carry a history.
fetchJson(i, throws, kind, hasHistory) ==
    /\ fetchState[i] = "json"
    /\ IF throws
       THEN fetchFailed(i)
       ELSE /\ accounts' = i
            /\ models' = storeModels(models, i, kind)
            /\ modelConfig' = i
            /\ usageHistory' = (IF hasHistory THEN i ELSE usageHistory)
            /\ quotaRows' = computeQuotaRows(models', modelConfig', accounts')
            /\ responseModels' = kind
            /\ lastUpdated' = i
            /\ versionFetched' = (IF initialLoad THEN TRUE ELSE versionFetched)
            /\ loading' = FALSE
            /\ initialLoad' = FALSE
            /\ fetchState' = [fetchState EXCEPT ![i] = "ended"]
            /\ UNCHANGED toasts

\* The store as its literal defines it: nothing fetched yet.
InitFetch ==
    /\ PoolIdle
    /\ LogIdle
    /\ ChartIdle
    /\ HealthIdle
    /\ FetchIdle
    /\ MoreIdle

NextFetch ==
    \/ \E i \in 1..MaxFetch :
          fetchData(i)
            /\ UNCHANGED <<poolVars, logVars, chartVars, healthVars, moreVars>>
    \/ \E i \in 1..MaxFetch, r \in {"ok", "notOk", "throws"} :
          fetchResponse(i, r)
            /\ UNCHANGED <<poolVars, logVars, chartVars, healthVars, moreVars>>
    \/ \E i \in 1..MaxFetch, t \in BOOLEAN,
          k \in {"missing", "empty", "some"}, h \in BOOLEAN :
          fetchJson(i, t, k, h)
            /\ UNCHANGED <<poolVars, logVars, chartVars, healthVars, moreVars>>

SpecFetch == InitFetch /\ [][NextFetch]_vars

\* ======================================================= the log viewer
\* const limit = settings.logLimit || DEFAULT_LOG_LIMIT
limitNow == IF logLimit # 0 THEN logLimit ELSE DEFAULT_LOG_LIMIT

\* s.slice(-n), for n > 0
sliceLast_KeepsOldest(s, n) == IF Len(s) <= n THEN s ELSE SubSeq(s, 1, n)

sliceLast(s, n) == IF Len(s) <= n THEN s ELSE SubSeq(s, Len(s) - n + 1, Len(s))

\* if (this.eventSource) this.eventSource.close()
closeCurrent_Skipped(open, es) == open

closeCurrent(open, es) == IF es # 0 THEN open \ {es} ELSE open

\* The body of startLogStream: the current stream is closed and a new one
\* opened, with its two handlers.
startLogStreamBody ==
    /\ streamsMade < MaxStreams
    /\ openStreams' = closeCurrent(openStreams, eventSource)
                         \cup {streamsMade + 1}
    /\ eventSource' = streamsMade + 1
    /\ streamsMade' = streamsMade + 1

\* Alpine calls init() when the component is created.
logsViewer_init ==
    /\ logsOp = "none"
    /\ logsOp' = "init"
    /\ startLogStreamBody
    /\ UNCHANGED <<logs, received, arrived, logLimit, reconnectTimers,
                   errorsSeen>>

\* onmessage: an open stream delivers a message whose data is, or is not,
\* valid JSON.
onmessage(es, valid) ==
    /\ es \in openStreams
    /\ arrived < MaxMessages
    /\ arrived' = arrived + 1
    /\ logsOp' = (IF valid THEN "message" ELSE "badMessage")
    /\ IF valid
       THEN /\ logs' = (IF Len(logs) + 1 > limitNow
                           THEN sliceLast(Append(logs, arrived + 1), limitNow)
                           ELSE Append(logs, arrived + 1))
            /\ received' = Append(received, arrived + 1)
       ELSE UNCHANGED <<logs, received>>
    /\ UNCHANGED <<logLimit, eventSource, openStreams, streamsMade,
                   reconnectTimers, errorsSeen>>

\* onerror: an open stream reports an error; a reconnect is set for 3
\* seconds later. The stream is left as it is.
onerror(es) ==
    /\ es \in openStreams
    /\ streamsMade + reconnectTimers < MaxStreams
    /\ reconnectTimers' = reconnectTimers + 1
    /\ errorsSeen' = errorsSeen + 1
    /\ logsOp' = "error"
    /\ UNCHANGED <<logs, received, arrived, logLimit, eventSource,
                   openStreams, streamsMade>>

\* A reconnect timeout fires: startLogStream().
reconnect ==
    /\ reconnectTimers > 0
    /\ reconnectTimers' = reconnectTimers - 1
    /\ logsOp' = "reconnect"
    /\ startLogStreamBody
    /\ UNCHANGED <<logs, received, arrived, logLimit, errorsSeen>>

clearLogs ==
    /\ logsOp # "none"
    /\ logs' = << >>
    /\ received' = << >>
    /\ logsOp' = "clearLogs"
    /\ UNCHANGED <<arrived, logLimit, eventSource, openStreams, streamsMade,
                   reconnectTimers, errorsSeen>>

\* The user changes the log limit in the settings.
setLogLimit(n) ==
    /\ logsOp # "none"
    /\ logLimit' = n
    /\ logsOp' = "setLogLimit"
    /\ UNCHANGED <<logs, received, arrived, eventSource, openStreams,
                   streamsMade, reconnectTimers, errorsSeen>>

LogLimits == 1..(DEFAULT_LOG_LIMIT + 1)

\* The component as its literal defines it, with the log limit set or not.
InitLogs ==
    /\ PoolIdle
    /\ FirstIdle
    /\ RefreshIdle
    /\ FilterIdle
    /\ logs = << >>
    /\ received = << >>
    /\ arrived = 0
    /\ logLimit \in {0} \cup LogLimits
    /\ eventSource = 0
    /\ openStreams = {}
    /\ streamsMade = 0
    /\ reconnectTimers = 0
    /\ errorsSeen = 0
    /\ logsOp = "none"

NextLogs ==
    \/ logsViewer_init /\ UNCHANGED <<poolVars, firstVars, refreshVars, filterVars>>
    \/ \E es \in 1..MaxStreams, v \in BOOLEAN :
          onmessage(es, v) /\ UNCHANGED <<poolVars, firstVars, refreshVars, filterVars>>
    \/ \E es \in 1..MaxStreams : onerror(es) /\ UNCHANGED <<poolVars, firstVars, refreshVars, filterVars>>
    \/ reconnect /\ UNCHANGED <<poolVars, firstVars, refreshVars, filterVars>>
    \/ clearLogs /\ UNCHANGED <<poolVars, firstVars, refreshVars, filterVars>>
    \/ \E n \in LogLimits : setLogLimit(n) /\ UNCHANGED <<poolVars, firstVars, refreshVars, filterVars>>

SpecLogs == InitLogs /\ [][NextLogs]_vars

\* A timeout that has been set fires after its 3 seconds.
SpecLogsFair == SpecLogs /\ WF_vars(reconnect /\ UNCHANGED <<poolVars, firstVars, refreshVars, filterVars>>)

\* ==================================== the app controller's auto-refresh
\* The values the refresh interval setting can hold: nothing, numbers and
\* strings (n: a number, s: a string).
NaN == [nan |-> TRUE, n |-> 0]
Num(k) == [nan |-> FALSE, n |-> k]

RefreshIntervals ==
    {"undefined", "n:0", "n:NaN", "n:-5", "n:30", "s:", "s:0", "s:30", "s:abc"}

\* v || 60
orSixty(v) == IF v \in {"undefined", "n:0", "n:NaN", "s:"} THEN "n:60" ELSE v

\* parseInt(v)
parseInt(v) ==
    CASE v \in {"n:0", "s:0"}   -> Num(0)
      [] v = "n:-5"             -> Num(0 - 5)
      [] v \in {"n:30", "s:30"} -> Num(30)
      [] v = "n:60"             -> Num(60)
      [] OTHER                  -> NaN

\* interval > 0
positive(i) == ~i.nan /\ i.n > 0

\* The setting is configured and asks for no auto-refresh: 0, a negative
\* number, or not a number.
NoRefreshWanted(v) ==
    LET i == parseInt(v) IN v # "undefined" /\ (i.nan \/ i.n <= 0)

\* The body of startAutoRefresh.
startAutoRefreshBody(setting) ==
    LET interval == parseInt(orSixty(setting))
        cleared  == IF refreshTimer # 0
                       THEN clearInterval(liveRefreshTimers, refreshTimer)
                       ELSE liveRefreshTimers
    IN  IF positive(interval)
        THEN /\ refreshTimersMade < MaxTimers
             /\ liveRefreshTimers' = cleared \cup {refreshTimersMade + 1}
             /\ refreshTimer' = refreshTimersMade + 1
             /\ refreshTimersMade' = refreshTimersMade + 1
        ELSE /\ liveRefreshTimers' = cleared
             /\ UNCHANGED <<refreshTimer, refreshTimersMade>>

\* Alpine.store('data').fetchData(): the next call of it starts.
callFetchData == \E i \in 1..MaxFetch : fetchData(i)

\* app.init(): auto-refresh started, the listener registered, the initial
\* fetch made.
app_init ==
    /\ refreshOp = "none"
    /\ refreshOp' = "init"
    /\ startAutoRefreshBody(refreshInterval)
    /\ refreshListener' = TRUE
    /\ callFetchData
    /\ UNCHANGED refreshInterval

\* The setting changes and refresh-interval-changed is dispatched: the
\* listener calls startAutoRefresh.
refreshIntervalChanged(v) ==
    /\ refreshListener
    /\ refreshOp' = "refresh-interval-changed"
    /\ refreshInterval' = v
    /\ startAutoRefreshBody(v)
    /\ UNCHANGED <<refreshListener, fetchVars>>

\* A live auto-refresh interval fires.
refreshTick(id) ==
    /\ id \in liveRefreshTimers
    /\ refreshOp' = "tick"
    /\ callFetchData
    /\ UNCHANGED <<refreshTimer, liveRefreshTimers, refreshTimersMade,
                   refreshInterval, refreshListener>>

InitRefresh ==
    /\ PoolIdle
    /\ FirstIdle
    /\ LogsIdle
    /\ FilterIdle
    /\ refreshTimer = 0
    /\ liveRefreshTimers = {}
    /\ refreshTimersMade = 0
    /\ refreshInterval \in RefreshIntervals
    /\ refreshListener = FALSE
    /\ refreshOp = "none"

restOfRefresh == <<poolVars, logVars, chartVars, healthVars, logsVars,
                   filterVars>>

NextRefresh ==
    \/ app_init /\ UNCHANGED restOfRefresh
    \/ \E v \in RefreshIntervals :
          refreshIntervalChanged(v) /\ UNCHANGED restOfRefresh
    \/ \E id \in 1..MaxTimers : refreshTick(id) /\ UNCHANGED restOfRefresh

SpecRefresh == InitRefresh /\ [][NextRefresh]_vars

\* ================================================ the dashboard filters
\* component.modelTree: the models of each family.
modelTree == [f \in AllFamilies |->
                 IF f = "claude" THEN <<"opus", "sonnet">> ELSE <<"pro">>]

TimeRanges == {"1h", "24h", "all"}
DisplayModes == {"family", "model"}

Range(s) == {s[i] : i \in 1..Len(s)}

\* array.includes(x)
contains(s, x) == x \in Range(s)

\* array.indexOf(x), from 1 (0: not found)
indexOf(s, x) ==
    IF contains(s, x) THEN CHOOSE i \in 1..Len(s) :
                         s[i] = x /\ \A j \in 1..(i - 1) : s[j] # x
    ELSE 0

\* index > -1 ? splice(index, 1) : push(x)
toggle_AlwaysPush(s, x) == Append(s, x)

toggle(s, x) ==
    LET i == indexOf(s, x) IN
    IF i > 0 THEN SubSeq(s, 1, i - 1) \o SubSeq(s, i + 1, Len(s))
    ELSE Append(s, x)

\* if (!array.includes(x)) array.push(x)
pushNew(s, x) == IF contains(s, x) THEN s ELSE Append(s, x)

RECURSIVE pushAllNew(_, _)
pushAllNew(s, list) ==
    IF list = << >> THEN s
    ELSE pushAllNew(pushNew(s, Head(list)), Tail(list))

Present(list) == [present |-> TRUE, models |-> list]

\* what savePreferences writes: JSON.stringify of the four values
prefsOf(tr, dm, sf, sm) ==
    <<[timeRange |-> tr, displayMode |-> dm, selectedFamilies |-> sf,
       selectedModels |-> sm]>>

\* One filter operation: the four values it leaves, whether it saves the
\* preferences and calls updateTrendChart, and the user's deselections.
FilterStep(op, tr, dm, sf, sm, saves, updates, desel) ==
    /\ filterOp' = op
    /\ timeRange' = tr
    /\ displayMode' = dm
    /\ selectedFamilies' = sf
    /\ selectedModels' = sm
    /\ dashboard_chart_prefs' =
          (IF saves THEN prefsOf(tr, dm, sf, sm) ELSE dashboard_chart_prefs)
    /\ trendRequested' = updates
    /\ userDeselected' = desel
    /\ UNCHANGED families

\* value || fallback, for a string
orElse(v, d) == IF v = "" THEN d ELSE v

loadPreferences ==
    IF dashboard_chart_prefs # << >>
    THEN LET prefs == dashboard_chart_prefs[1] IN
         FilterStep("loadPreferences",
                    orElse(prefs.timeRange, "24h"),
                    orElse(prefs.displayMode, "model"),
                    prefs.selectedFamilies, prefs.selectedModels,
                    FALSE, FALSE, userDeselected)
    ELSE FilterStep("loadPreferences", timeRange, displayMode,
                    selectedFamilies, selectedModels, FALSE, FALSE,
                    userDeselected)

savePreferences ==
    FilterStep("savePreferences", timeRange, displayMode, selectedFamilies,
               selectedModels, TRUE, FALSE, userDeselected)

setDisplayMode(mode) ==
    FilterStep("setDisplayMode", timeRange, mode, selectedFamilies,
               selectedModels, TRUE, TRUE, userDeselected)

setTimeRange(range) ==
    FilterStep("setTimeRange", range, displayMode, selectedFamilies,
               selectedModels, TRUE, TRUE, userDeselected)

toggleFamily(family) ==
    FilterStep("toggleFamily", timeRange, displayMode,
               toggle(selectedFamilies, family), selectedModels, TRUE, TRUE,
               IF contains(selectedFamilies, family)
                  THEN userDeselected \cup {<<family>>}
                  ELSE userDeselected \ {<<family>>})

toggleModel(family, model) ==
    LET list == selectedModels[family].models IN
    FilterStep("toggleModel", timeRange, displayMode, selectedFamilies,
               [selectedModels EXCEPT ![family] = Present(toggle(list, model))],
               TRUE, TRUE,
               IF contains(list, model)
                  THEN userDeselected \cup {<<family, model>>}
                  ELSE userDeselected \ {<<family, model>>})

\* selectedFamilies = [...families]; selectedModels[family] =
\* [...modelTree[family]] for every family of the list
allSelected ==
    [f \in AllFamilies |-> IF contains(families, f) THEN Present(modelTree[f])
                                                ELSE selectedModels[f]]

selectAll ==
    FilterStep("selectAll", timeRange, displayMode, families, allSelected,
               TRUE, TRUE, {})

deselectAll ==
    FilterStep("deselectAll", timeRange, displayMode, << >>, NoModels,
               TRUE, TRUE,
               userDeselected \cup {<<f>> : f \in Range(selectedFamilies)}
                  \cup UNION {{<<f, m>> : m \in Range(selectedModels[f].models)} :
                                 f \in AllFamilies})

\* autoSelectNew: everything when nothing is selected and selectedModels has
\* no key (saved at once); else every family of the list and every model of
\* the tree that is not selected is added (and nothing saved).
autoSelectNew ==
    IF selectedFamilies = << >>
          /\ \A f \in AllFamilies : ~selectedModels[f].present
    THEN FilterStep("autoSelectNew", timeRange, displayMode, families,
                    allSelected, TRUE, FALSE, userDeselected)
    ELSE FilterStep("autoSelectNew", timeRange, displayMode,
                    pushAllNew(selectedFamilies, families),
                    [f \in AllFamilies |->
                        IF contains(families, f)
                        THEN Present(pushAllNew(selectedModels[f].models,
                                                modelTree[f]))
                        ELSE selectedModels[f]],
                    FALSE, FALSE, userDeselected)

RECURSIVE SeqsOfLen(_, _)
SeqsOfLen(S, n) ==
    IF n = 0 THEN {<< >>}
    ELSE {Append(t, x) : t \in SeqsOfLen(S, n - 1), x \in S}

\* The keys 'family:model' of the models used in the past 24 hours, sorted
\* by usage, the first n of them.
TopLists ==
    {t \in UNION {SeqsOfLen({<<"claude", "opus">>, <<"claude", "sonnet">>,
                             <<"gemini", "pro">>}, n) : n \in 0..MaxTopN} :
        \A i, j \in 1..Len(t) : i # j => t[i] # t[j]}

RECURSIVE familiesOf(_)
familiesOf(top) ==
    IF top = << >> THEN << >>
    ELSE LET rest == familiesOf(SubSeq(top, 1, Len(top) - 1)) IN
         pushNew(rest, top[Len(top)][1])

RECURSIVE modelsOf(_, _)
modelsOf(top, f) ==
    IF top = << >> THEN << >>
    ELSE LET rest == modelsOf(SubSeq(top, 1, Len(top) - 1), f)
             last == top[Len(top)] IN
         IF last[1] = f THEN pushNew(rest, last[2]) ELSE rest

autoSelectTopN(top) ==
    FilterStep("autoSelectTopN", timeRange, displayMode, familiesOf(top),
               [f \in AllFamilies |->
                   IF contains(familiesOf(top), f) THEN Present(modelsOf(top, f))
                   ELSE [present |-> FALSE, models |-> << >>]],
               TRUE, TRUE, userDeselected)

\* The account data arrives or changes: a family appears in the list.
familyAppears(f) ==
    /\ ~contains(families, f)
    /\ families' = Append(families, f)
    /\ filterOp' = "familyAppears"
    /\ UNCHANGED <<timeRange, displayMode, selectedFamilies, selectedModels,
                   dashboard_chart_prefs, trendRequested, userDeselected>>

\* The dashboard component as getInitialState leaves it, nothing stored.
InitFilters ==
    /\ PoolIdle
    /\ FirstIdle
    /\ LogsIdle
    /\ RefreshIdle
    /\ getInitialState
    /\ families \in {<<"claude">>, <<"claude", "gemini">>}
    /\ dashboard_chart_prefs = << >>
    /\ filterOp = "none"
    /\ trendRequested = FALSE
    /\ userDeselected = {}

restOfFilters == <<poolVars, firstVars, logsVars, refreshVars>>

NextFilters ==
    \/ loadPreferences /\ UNCHANGED restOfFilters
    \/ savePreferences /\ UNCHANGED restOfFilters
    \/ \E m \in DisplayModes : setDisplayMode(m) /\ UNCHANGED restOfFilters
    \/ \E r \in TimeRanges : setTimeRange(r) /\ UNCHANGED restOfFilters
    \/ \E f \in Range(families) : toggleFamily(f) /\ UNCHANGED restOfFilters
    \/ \E f \in Range(families) : \E m \in Range(modelTree[f]) :
          toggleModel(f, m) /\ UNCHANGED restOfFilters
    \/ selectAll /\ UNCHANGED restOfFilters
    \/ deselectAll /\ UNCHANGED restOfFilters
    \/ autoSelectNew /\ UNCHANGED restOfFilters
    \/ \E top \in TopLists : autoSelectTopN(top) /\ UNCHANGED restOfFilters
    \/ \E f \in AllFamilies : familyAppears(f) /\ UNCHANGED restOfFilters

SpecFilters == InitFilters /\ [][NextFilters]_vars

\* ============================================================ properties
Known(e)  == find(_accounts, e) # 0
AccIn(accs, e) == accs[find(accs, e)]
Acc(e)    == AccIn(_accounts, e)
EmailsOf(accs) == {accs[i].email : i \in 1..Len(accs)}

\* The step being taken is a call of op (a stuttering step or a clock tick,
\* which leave call as it was, never is).
IsCall(op) == nSteps' = nSteps + 1 /\ now' = now /\ call'.op = op

\* The account has a rate-limit window for the model that has not passed.
RateLimitedFor(a, m) ==
    /\ m \in DOMAIN a.modelRateLimits
    /\ now < a.modelRateLimits[m].resetAt

\* C1: isAllAccountsInvalid() is true exactly when at least one account has
\* enabled !== false and every account with enabled !== false is invalid;
\* so it is false with zero enabled accounts, and a disabled account neither
\* counts as healthy nor prevents a true verdict.
C1_AllInvalidIffEveryEnabledInvalid ==
    isAllAccountsInvalid <=>
        /\ \E i \in 1..Len(_accounts) : _accounts[i].enabled # FALSE
        /\ \A i \in 1..Len(_accounts) :
              _accounts[i].enabled # FALSE => _accounts[i].isInvalid

\* A disabled, healthy account sits beside an invalid enabled one: verdict true.
C1_Witness ==
    /\ isAllAccountsInvalid
    /\ \E i \in 1..Len(_accounts) :
          _accounts[i].enabled = FALSE /\ ~_accounts[i].isInvalid

\* C2: for every model, getAvailableAccounts(model) holds no invalid and no
\* disabled account, whatever the account's rate-limit windows are, and holds
\* every account that is enabled, valid and not rate-limited for that model.
C2_AvailableExcludesInvalidAndDisabled ==
    \A m \in Models : \A i \in 1..Len(_accounts) :
        LET a   == _accounts[i]
            got == a.email \in EmailsOf(getAvailableAccounts(m))
        IN  /\ got => ~a.isInvalid /\ a.enabled # FALSE
            /\ (a.enabled # FALSE /\ ~a.isInvalid /\ ~RateLimitedFor(a, m)) => got

\* One account is invalid and left out while another is still returned.
C2_Witness ==
    \E i \in 1..Len(_accounts), m \in Models :
        /\ _accounts[i].isInvalid
        /\ _accounts[i].email \notin EmailsOf(getAvailableAccounts(m))
        /\ Len(getAvailableAccounts(m)) > 0

\* C3: after markRateLimited(email, resetAtMs, model) on a known, enabled,
\* valid account, getAvailableAccounts(model) does not contain the account
\* while the current time is before resetAtMs.
C3_RateLimitedAccountNotAvailable ==
    \A e \in PoolEmails :
        ( /\ call.op = "markRateLimited"
          /\ call.email = e
          /\ Acc(e).enabled # FALSE
          /\ ~Acc(e).isInvalid
          /\ now < call.resetMs )
        => e \notin EmailsOf(getAvailableAccounts(call.model))

\* C4: markInvalid(email, reason, verifyUrl) followed by clearInvalid(email)
\* on a known email leaves isInvalid = false, invalidReason = null and
\* verifyUrl = null, and an enabled account is returned again by
\* getAvailableAccounts.
C4_MarkThenClearRoundTrip ==
    [][ \A e \in PoolEmails :
          ( /\ call.op = "markInvalid"
            /\ call.email = e
            /\ IsCall("clearInvalid")
            /\ call'.email = e )
          => LET a == AccIn(_accounts', e)
             IN  /\ a.isInvalid = FALSE
                 /\ a.invalidReason = Null
                 /\ a.verifyUrl = Null
                 /\ a.enabled # FALSE =>
                       \A m \in Models : e \in EmailsOf(AvailableIn(_accounts', m))
      ]_vars

\* clearInvalid has just brought back an account that markInvalid had taken out.
C4_Witness ==
    /\ call.op = "clearInvalid"
    /\ ret = "true"
    /\ Acc(call.email).invalidAt >= 0
    /\ \A m \in Models : call.email \in EmailsOf(getAvailableAccounts(m))

\* C5: in every account, verifyUrl is non-null only if isInvalid is true, and
\* invalidReason is non-null if and only if isInvalid is true.
C5_InvalidFieldsConsistent ==
    \A i \in 1..Len(_accounts) :
        /\ _accounts[i].verifyUrl # Null => _accounts[i].isInvalid
        /\ _accounts[i].invalidReason # Null <=> _accounts[i].isInvalid

\* One account is invalid with a verification URL, another invalid without.
C5_Witness ==
    \E i, j \in 1..Len(_accounts) :
        /\ _accounts[i].isInvalid /\ _accounts[i].verifyUrl # Null
        /\ _accounts[j].isInvalid /\ _accounts[j].verifyUrl = Null

\* C6 as stated: after clearInvalid(email) on a known account, invalidAt is
\* null just as invalidReason and verifyUrl are.
C6_ClearInvalidNullsInvalidAt ==
    ( /\ call.op = "clearInvalid"
      /\ ret = "true" )
    => /\ Acc(call.email).invalidReason = Null
       /\ Acc(call.email).verifyUrl = Null
       /\ Acc(call.email).invalidAt \in {NullTime, UndefinedTime}

\* C6 as amended: markInvalid sets isInvalid, invalidReason, verifyUrl and
\* invalidAt together; clearInvalid on a known account resets isInvalid,
\* invalidReason and verifyUrl to false/null/null and leaves invalidAt as
\* it was.
C6_ClearInvalidKeepsInvalidAt ==
    [][ /\ (IsCall("markInvalid") /\ ret' = "true") =>
              LET a == AccIn(_accounts', call'.email)
              IN  /\ a.isInvalid = TRUE
                  /\ a.invalidReason = call'.reason
                  /\ a.verifyUrl \in {Null, call'.verifyUrl}
                  /\ a.invalidAt = now
        /\ (IsCall("clearInvalid") /\ ret' = "true") =>
              LET a == AccIn(_accounts', call'.email)
              IN  /\ a.isInvalid = FALSE
                  /\ a.invalidReason = Null
                  /\ a.verifyUrl = Null
                  /\ a.invalidAt = Acc(call'.email).invalidAt
      ]_vars

\* clearInvalid has acted on an account that still carries its invalidAt.
C6_Witness ==
    /\ call.op = "clearInvalid"
    /\ ret = "true"
    /\ ~Acc(call.email).isInvalid
    /\ Acc(call.email).invalidReason = Null
    /\ Acc(call.email).invalidAt >= 0

\* C7: once an account is invalid, isInvalid stays true across every step
\* that is not clearInvalid for that same email.
C7_OnlyClearInvalidRestores ==
    [][ \A i \in 1..Len(_accounts) :
          ( /\ _accounts[i].isInvalid
            /\ ~(IsCall("clearInvalid") /\ call'.email = _accounts[i].email) )
          => /\ Len(_accounts') = Len(_accounts)
             /\ _accounts'[i].isInvalid
      ]_vars

\* An invalid account has been through another operation and is still invalid.
C7_Witness ==
    \E i \in 1..Len(_accounts) :
        /\ _accounts[i].isInvalid
        /\ call.email = _accounts[i].email
        /\ call.op \in {"markRateLimited", "notifySuccess", "notifyFailure",
                        "notifyRateLimit"}

\* C8: markInvalid and clearInvalid with an email that is not in the pool
\* return false and change no account and no query result; with a known
\* email they return true.
C8_UnknownEmailIsNoOp ==
    [][ (IsCall("markInvalid") \/ IsCall("clearInvalid")) =>
          IF call'.email \in PoolEmails
          THEN ret' = "true"
          ELSE /\ ret' = "false"
               /\ _accounts' = _accounts
               /\ AllInvalidIn(_accounts') = isAllAccountsInvalid
               /\ \A m \in Models :
                     AvailableIn(_accounts', m) = getAvailableAccounts(m)
      ]_vars

\* markInvalid was called with an unknown email on a pool that has accounts.
C8_Witness ==
    /\ call.op = "markInvalid"
    /\ call.email = UnknownEmail
    /\ ret = "false"
    /\ Len(_accounts) > 0

\* C9: every mutating call that applies saves before it returns; in
\* particular markInvalid and clearInvalid each increase the number of saves.
C9_MutatorsSave ==
    [][ ( /\ (IsCall("markInvalid") \/ IsCall("clearInvalid"))
          /\ ret' = "true" )
        => _savedToDisk' > _savedToDisk
      ]_vars

\* C10: every valid-to-invalid (markInvalid) and invalid-to-valid
\* (clearInvalid) transition of an account leaves no cached token and no
\* cached project metadata for that email.
C10_TransitionClearsCaches ==
    [][ \A e \in PoolEmails :
          ( /\ (IsCall("markInvalid") \/ IsCall("clearInvalid"))
            /\ call'.email = e
            /\ AccIn(_accounts', e).isInvalid # Acc(e).isInvalid )
          => /\ e \notin tokenCache'
             /\ e \notin projectCache'
      ]_vars

\* C11: under the refresh flow an invalid account without a verifyUrl (an
\* auth error) is still invalid after a refresh, hence after any number of
\* them, while an invalid account with a verifyUrl is valid after the next
\* refresh.
C11_RefreshClearsOnlyVerification ==
    [][ \A i \in 1..Len(_accounts) :
          refresh(i) =>
            /\ Len(_accounts') = Len(_accounts)
            /\ (_accounts[i].isInvalid /\ _accounts[i].verifyUrl = Null)
                  => /\ _accounts'[i].isInvalid
                     /\ _accounts'[i].verifyUrl = Null
            /\ (_accounts[i].isInvalid /\ _accounts[i].verifyUrl # Null)
                  => ~_accounts'[i].isInvalid
      ]_vars

\* A refresh has run on an account that was marked invalid without a
\* verifyUrl, and the account is still invalid.
C11_Witness ==
    /\ call.op = "refresh"
    /\ Known(call.email)
    /\ Acc(call.email).isInvalid
    /\ Acc(call.email).verifyUrl = Null
    /\ Acc(call.email).invalidReason = "Token revoked"

\* C12 as stated: markInvalid on a known email sets isInvalid = true,
\* invalidReason = reason, invalidAt = the current time, and verifyUrl = the
\* given value whenever one is supplied, null only when the argument is
\* omitted or null.
C12_MarkInvalidStoresGivenVerifyUrl ==
    [][ \A e \in PoolEmails :
          (IsCall("markInvalid") /\ call'.email = e) =>
            LET a == AccIn(_accounts', e) IN
            /\ ret' = "true"
            /\ a.isInvalid
            /\ a.invalidReason = call'.reason
            /\ a.invalidAt = now
            /\ a.verifyUrl = IF call'.verifyUrl \in {Undefined, Null}
                             THEN Null
                             ELSE call'.verifyUrl
      ]_vars

\* C12, amended: markInvalid on a known email sets isInvalid = true,
\* invalidReason = reason, invalidAt = the current time, and verifyUrl = the
\* given value when a non-empty one is supplied and null when the argument is
\* omitted, null or the empty string; no previous value of these fields
\* survives.
C12_MarkInvalidOverwritesFields ==
    [][ \A e \in PoolEmails :
          (IsCall("markInvalid") /\ call'.email = e) =>
            LET a == AccIn(_accounts', e) IN
            /\ ret' = "true"
            /\ a.isInvalid
            /\ a.invalidReason = call'.reason
            /\ a.invalidAt = now
            /\ a.verifyUrl = IF call'.verifyUrl \in {Undefined, Null, ""}
                             THEN Null
                             ELSE call'.verifyUrl
      ]_vars

\* markInvalid was called with an empty verifyUrl on a known email and the
\* account holds null.
C12_Witness ==
    /\ call.op = "markInvalid"
    /\ call.verifyUrl = ""
    /\ Known(call.email)
    /\ Acc(call.email).isInvalid
    /\ Acc(call.email).verifyUrl = Null

\* C13: markRateLimited(email, resetAtMs, A) stores the window
\* {resetAt: resetAtMs} under model A on that account only, leaves isInvalid,
\* invalidReason and verifyUrl alone, leaves every other window and account
\* alone, and leaves the account available for every other model.
C13_MarkRateLimitedSetsWindow ==
    [][ \A e \in PoolEmails :
          (IsCall("markRateLimited") /\ call'.email = e) =>
            LET a == AccIn(_accounts', e)
                A == call'.model
            IN  /\ A \in DOMAIN a.modelRateLimits
                /\ a.modelRateLimits[A] = [resetAt |-> call'.resetMs]
                /\ a.isInvalid = Acc(e).isInvalid
                /\ a.invalidReason = Acc(e).invalidReason
                /\ a.verifyUrl = Acc(e).verifyUrl
                /\ \A i \in 1..Len(_accounts) :
                      _accounts[i].email # e => _accounts'[i] = _accounts[i]
                /\ \A B \in Models \ {A} :
                      e \in EmailsOf(getAvailableAccounts(B))
                         => e \in EmailsOf(AvailableIn(_accounts', B))
      ]_vars

\* C14: consecutiveFailures is never negative, each notifyFailure and
\* incrementConsecutiveFailures for an account adds one to it, notifySuccess
\* resets it to 0, and getConsecutiveFailures returns its value.
C14_FailuresCounted ==
    [][ \A e \in PoolEmails :
          /\ AccIn(_accounts', e).consecutiveFailures >= 0
          /\ ( /\ (IsCall("notifyFailure")
                     \/ IsCall("incrementConsecutiveFailures"))
               /\ call'.email = e )
             => AccIn(_accounts', e).consecutiveFailures
                   = Acc(e).consecutiveFailures + 1
          /\ (IsCall("notifySuccess") /\ call'.email = e)
             => AccIn(_accounts', e).consecutiveFailures = 0
      ]_vars

\* C15: notifySuccess, notifyFailure and notifyRateLimit change no account's
\* isInvalid, invalidReason, verifyUrl or enabled, and getAvailableAccounts
\* and isAllAccountsInvalid give the same results after as before.
C15_NotificationsKeepState ==
    [][ (IsCall("notifySuccess") \/ IsCall("notifyFailure")
            \/ IsCall("notifyRateLimit")) =>
          /\ Len(_accounts') = Len(_accounts)
          /\ \A i \in 1..Len(_accounts) :
                /\ _accounts'[i].isInvalid = _accounts[i].isInvalid
                /\ _accounts'[i].invalidReason = _accounts[i].invalidReason
                /\ _accounts'[i].verifyUrl = _accounts[i].verifyUrl
                /\ _accounts'[i].enabled = _accounts[i].enabled
          /\ AllInvalidIn(_accounts') = isAllAccountsInvalid
          /\ \A m \in Models :
                AvailableIn(_accounts', m) = getAvailableAccounts(m)
      ]_vars

\* A failure was notified for an account that is still available, in a pool
\* that also holds an invalid account.
C15_Witness ==
    /\ call.op = "notifyFailure"
    /\ call.email \in EmailsOf(getAvailableAccounts(call.model))
    /\ \E i \in 1..Len(_accounts) : _accounts[i].isInvalid

C17_FieldGroupNeverPartial ==
    \A i \in 1..Len(_accounts) :
        LET a == _accounts[i] IN
        /\ a.isInvalid => /\ a.invalidReason \in Reasons
                          /\ a.invalidAt \in 0..now
                          /\ a.verifyUrl \in {Null} \cup
                                (VerifyUrlArgs \ {Undefined, Null, ""})
        /\ ~a.isInvalid => /\ a.invalidReason = Null
                           /\ a.verifyUrl = Null
        /\ (call.op = "markInvalid" /\ call.email = a.email)
              => /\ a.isInvalid
                 /\ a.invalidReason = call.reason
                 /\ a.verifyUrl = OrNull(call.verifyUrl)
                 /\ a.invalidAt \in 0..now

\* markInvalid has been called twice in a row and nothing else has been:
\* the account holds the second call's reason.
C17_Witness ==
    /\ call.op = "markInvalid"
    /\ call.reason = "Token revoked"
    /\ Known(call.email)
    /\ nSteps = 2
    /\ _logLen = 2
    /\ _savedToDisk = 0
    /\ \A i \in 1..Len(_accounts) :
          /\ _accounts[i].enabled
          /\ _accounts[i].isInvalid <=> _accounts[i].email = call.email

\* The positions in accs of the eligible accounts.
EligibleAt(accs) ==
    {i \in 1..Len(accs) : ~accs[i].isInvalid /\ accs[i].enabled # FALSE}

\* C18: getAvailableAccounts returns the eligible accounts in pool order, as
\* a subsequence of getAllAccounts(); in the pool [A, B, C] with only B
\* invalid it returns exactly [A, C] and isAllAccountsInvalid() is false, and
\* with B cleared it returns [A, B, C].
C18_AvailableInPoolOrder ==
    \A m \in Models :
        LET av  == getAvailableAccounts(m)
            all == getAllAccounts
            E   == EligibleAt(all)
        IN  /\ Len(av) = Cardinality(E)
            /\ \A k \in 1..Len(av) :
                  \E i \in E :
                     /\ av[k] = all[i]
                     /\ Cardinality({j \in E : j < i}) = k - 1
            /\ (E = {1, 3} /\ Len(all) = ScenarioPool)
                  => /\ [k \in 1..Len(av) |-> av[k].email]
                          = <<AllEmails[1], AllEmails[3]>>
                     /\ isAllAccountsInvalid = FALSE
            /\ (E = {1, 2, 3} /\ Len(all) = ScenarioPool)
                  => [k \in 1..Len(av) |-> av[k].email]
                        = <<AllEmails[1], AllEmails[2], AllEmails[3]>>

\* B was marked invalid and then cleared, and is back between A and C.
C18_Witness ==
    /\ call.op = "clearInvalid"
    /\ call.email = AllEmails[2]
    /\ ret = "true"
    /\ Acc(AllEmails[2]).invalidAt >= 0
    /\ \A m \in Models :
          [k \in 1..Len(getAvailableAccounts(m)) |->
              getAvailableAccounts(m)[k].email]
             = <<AllEmails[1], AllEmails[2], AllEmails[3]>>

C20_Generic403NotRotated ==
    LET Generic == {"403", "PERMISSION_DENIED", "Permission denied",
                    "Forbidden", "Access denied"}
    IN  ( /\ err # NoErr
          /\ \A i \in 1..Len(errorText) : errorText[i] \in Generic )
        => /\ ~verdict.isValidationRequired
           /\ ~verdict.isAccountForbiddenError
           /\ err.name = "Error"
           /\ _logLen = 0
           /\ \A i \in 1..Len(_accounts) : ~_accounts[i].isInvalid
           /\ Len(getAvailableAccounts(Undefined)) = Len(_accounts)

\* The handler has dealt with a body that says Forbidden and
\* PERMISSION_DENIED, for a pool of two accounts.
C20_Witness ==
    /\ err.name = "Error"
    /\ errorText = <<"Forbidden", "PERMISSION_DENIED">>
    /\ call.op = "handle403"
    /\ Len(_accounts) = 2

\* C21: a body that contains VALIDATION_REQUIRED, ACCOUNT_DISABLED or
\* USER_DISABLED in any letter case, in its free text or as the reason of a
\* structured error detail, makes isValidationRequired true.
C21_MarkersDetectedInAnyCase ==
    LET Spellings == {"VALIDATION_REQUIRED", "Validation_Required",
                      "validation_required", "ACCOUNT_DISABLED",
                      "Account_Disabled", "account_disabled",
                      "USER_DISABLED", "User_Disabled", "user_disabled"}
    IN  (outcome # "none" /\ err = NoErr /\ errorText # NullText) =>
          /\ (\E i \in 1..Len(errorText) : errorText[i] \in Spellings)
                => verdict.isValidationRequired
          /\ (\E i \in 1..(Len(errorText) - 1) :
                 /\ errorText[i] = "\"reason\":\""
                 /\ errorText[i + 1] \in Spellings)
                => verdict.isValidationRequired

\* A structured body whose error-detail reason is Account_Disabled and whose
\* message has no marker has been classified as validation required.
C21_Witness ==
    /\ outcome = "returned"
    /\ errorText = Json(<<"PERMISSION_DENIED">>, "Account_Disabled", << >>, TRUE)
    /\ verdict.isValidationRequired

C23_NothingFromUnparseableBody ==
    (outcome # "none" /\ err = NoErr) =>
        /\ outcome = "returned"
        /\ (errorText \in {NullText, << >>} \/ ~parses(errorText))
              => /\ ~verdict.isValidationRequired
                 /\ ~verdict.isPermanentAuthFailure
                 /\ ~verdict.isModelCapacityExhausted
                 /\ extracted = << >>
        /\ (\A i \in 1..Len(errorText) : errorText[i] # VerificationUrl[1])
              => extracted = << >>

\* C23, amended: classification never throws; for a null or empty body the
\* three detectors are false and extractVerificationUrl is null; a body that
\* does not parse is searched as plain text, so the detectors are false when
\* it has no marker and the URL is null when it has no verification URL.
C23_NeverThrowsAndNullOnNothing ==
    LET Markers == {"VALIDATION_REQUIRED", "Validation_Required",
                    "validation_required", "ACCOUNT_DISABLED",
                    "Account_Disabled", "account_disabled",
                    "USER_DISABLED", "User_Disabled", "user_disabled",
                    "invalid_grant", "MODEL_CAPACITY_EXHAUSTED"}
    IN  (outcome # "none" /\ err = NoErr) =>
          /\ outcome = "returned"
          /\ errorText \in {NullText, << >>}
                => /\ ~verdict.isValidationRequired
                   /\ ~verdict.isPermanentAuthFailure
                   /\ ~verdict.isModelCapacityExhausted
                   /\ extracted = << >>
          /\ ( /\ ~parses(errorText)
               /\ \A i \in 1..Len(errorText) : errorText[i] \notin Markers )
                => /\ ~verdict.isValidationRequired
                   /\ ~verdict.isPermanentAuthFailure
                   /\ ~verdict.isModelCapacityExhausted
          /\ (\A i \in 1..Len(errorText) : errorText[i] # VerificationUrl[1])
                => extracted = << >>

\* The functions have been applied to a null body and have returned.
C23_Witness ==
    /\ errorText = NullText
    /\ outcome = "returned"
    /\ verdict = NoVerdict
    /\ extracted = << >>

\* C24: scanning free text, extractVerificationUrl returns the first
\* verification URL itself: nothing of the ']', '>', '}', quote or period
\* that follows it, and all of a nested continue= parameter with its dots;
\* a validation_url carried by a structured VALIDATION_REQUIRED detail is
\* returned as it is, whatever the free text holds.
C24_UrlWithoutPayloadPunctuation ==
    LET text   == errorText
        starts == {i \in 1..Len(text) : text[i] = VerificationUrl[1]}
        first  == CHOOSE i \in starts : \A k \in starts : i <= k
        nested == /\ first + 1 <= Len(text)
                  /\ text[first + 1] = NestedUrl[2]
        detail(u) ==
            /\ Len(text) >= 1
            /\ text[1] = "{"
            /\ text[Len(text)] = "}"
            /\ \E i \in 1..(Len(text) - 1) :
                  /\ text[i] = "\"reason\":\""
                  /\ text[i + 1] \in {"VALIDATION_REQUIRED",
                                      "validation_required"}
            /\ \E k \in 1..(Len(text) - Len(u) - 1) :
                  SubSeq(text, k, k + Len(u) + 1)
                     = <<"\"validation_url\":\"">> \o u \o <<"\"">>
        Carried == {VerificationUrl, NestedUrl \o <<".">>}
    IN  (outcome = "returned" /\ err = NoErr /\ text # NullText) =>
          /\ \A u \in Carried : detail(u) => extracted = u
          /\ (starts # {} /\ \A u \in Carried : ~detail(u))
                => /\ extracted = IF nested THEN NestedUrl ELSE VerificationUrl
                   /\ extracted[Len(extracted)] \notin TrailChars

\* The URL with a nested continue= parameter was taken out of "[...]." with
\* its inner dots and without the bracket and the period.
C24_Witness ==
    /\ outcome = "returned"
    /\ errorText = <<"[">> \o NestedUrl \o <<"]", ".">>
    /\ extracted = NestedUrl

\* --------------------------------------------------------------- C25
\* C25: UILogger.warn and UILogger.error write to the console on every
\* call, whatever the debug mode is; UILogger.debug and UILogger.info write
\* exactly when debug mode is enabled; isDebug() returns the state set by
\* the last successful enableDebug, disableDebug or refresh.
C25_WarnAndErrorAlwaysWrite ==
    /\ uiCall \in {"warn", "error"} => consoleOut # << >>
    /\ uiCall \in {"debug", "info"} => (consoleOut # << >> <=> debugEnabled)
    /\ uiCall = "isDebug" => uiRet = (IF lastSet THEN "true" ELSE "false")

\* --------------------------------------------------------------- C26
\* C26: whenever no call of updateTrendChart is running (each call made so
\* far has ended: by an early return, by completing, or by an exception
\* raised in its body), _trendChartUpdateLock is false, so the next call is
\* not skipped.
C26_LockReleasedAfterEveryCall ==
    updatesInProgress = 0 => ~_trendChartUpdateLock

\* --------------------------------------------------------------- C27
\* C27: a call of updateTrendChart made while _trendChartUpdateLock is true
\* returns at once: it destroys and creates no chart and leaves
\* canvas._chartInstance, component.charts.usageTrend and
\* component.hasFilteredTrendData as they were; and never is more than one
\* update body in progress.
C27_LockedCallSkipped ==
    /\ [](updatesInProgress <= 1)
    /\ [][ (_trendChartUpdateLock /\ trendOp' = "call")
             => /\ trendRet' = "skipped"
                /\ updatesInProgress' = updatesInProgress
                /\ UNCHANGED <<_chartInstance, usageTrend,
                               hasFilteredTrendData, liveCharts,
                               chartsMade, _trendChartUpdateLock>> ]_vars

\* A call came while an update body was running between its destruction of
\* the old chart and its creation of the new one, and was skipped.
C27_Witness ==
    /\ trendRet = "skipped"
    /\ trendPc = "create"
    /\ updatesInProgress = 1
    /\ chartsMade = 1

\* --------------------------------------------------------------- C28
\* C28: performHealthCheck is invoked only while document.hidden is false,
\* and while the tab is hidden no health-check interval is live.
C28_NoCheckWhileHidden ==
    /\ performed => ~hidden
    /\ hidden => liveIntervals = {}

\* --------------------------------------------------------------- C29
\* C29: the data store has 0 or 1 live interval; healthCheckTimer refers to
\* the live one when there is one; after stopHealthCheck or destroy there
\* is none and healthCheckTimer is null; after destroy a visibility change
\* starts no timer.
C29_AtMostOneInterval ==
    /\ [] /\ Cardinality(liveIntervals) <= 1
          /\ liveIntervals # {} => liveIntervals = {healthCheckTimer}
          /\ healthOp \in {"stopHealthCheck", "destroy"}
                => liveIntervals = {} /\ healthCheckTimer = 0
    /\ [][ (destroyed /\ healthOp' = "visibilitychange")
              => UNCHANGED <<liveIntervals, healthCheckTimer, timersMade>>
         ]_vars

\* A second interval has been created with the first one cleared, and after
\* destroy the tab has been hidden and shown again.
C29_Witness ==
    /\ destroyed
    /\ healthOp = "visibilitychange"
    /\ ~hidden
    /\ timersMade = 2
    /\ liveIntervals = {}

\* --------------------------------------------------------------- C30
\* C30: loading is set to true only while initialLoad is true; every call
\* of fetchData that ends, with data or with an error, leaves loading and
\* initialLoad false; and once some call has ended loading is never true
\* again, whatever other calls are still in flight or start later.
C30_SkeletonOnlyOnInitialLoad ==
    /\ [][ /\ (loading' /\ ~loading) => initialLoad
           /\ \A i \in 1..MaxFetch :
                 (fetchState'[i] = "ended" /\ fetchState[i] # "ended")
                    => ~loading' /\ ~initialLoad' ]_vars
    /\ []((\E i \in 1..MaxFetch : fetchState[i] = "ended") => ~loading)

\* Two calls overlapped; one has ended with an error while the other still
\* waits for its response, and a third has started after that.
C30_Witness ==
    /\ fetchState[1] = "json"
    /\ fetchState[2] = "ended"
    /\ 2 \in toasts
    /\ fetchState[3] = "request"
    /\ ~loading

\* --------------------------------------------------------------- C31
\* C31: a call of fetchData that fails (the request throws, or the response
\* is not ok) writes none of accounts, models, modelConfig, usageHistory,
\* quotaRows and lastUpdated, neither when it starts nor when it fails, and
\* shows an error toast; and a response stored with a missing or empty models
\* list leaves a non-empty models list as it was.
C31_FailedFetchKeepsData ==
    [][ \A i \in 1..MaxFetch :
          /\ (fetchState[i] = "new" /\ fetchState'[i] = "request")
                => UNCHANGED dataVars
          /\ (fetchState[i] = "request" /\ fetchState'[i] = "ended")
                => /\ UNCHANGED dataVars
                   /\ i \in toasts'
          /\ ( /\ fetchState[i] = "json" /\ fetchState'[i] = "ended"
               /\ i \notin toasts'
               /\ responseModels' # "some"
               /\ models # 0 )
                => models' = models ]_vars

\* The first response has been stored with its models; the second, with an
\* empty models list, has replaced the accounts only; the third call failed
\* on its request.
C31_Witness ==
    /\ models = 1
    /\ accounts = 2
    /\ responseModels = "empty"
    /\ fetchState[3] = "ended"
    /\ toasts = {3}
    /\ lastUpdated = 2

\* --------------------------------------------------------------- C32
\* C32: after every message the stream delivers, logs.length is at most the
\* configured limit and logs is the tail of the entries received, in arrival
\* order, as long as the limit allows (one entry longer than before, or
\* exactly the limit); a message whose data is not valid JSON leaves logs
\* unchanged.
C32_LogBufferBounded ==
    /\ [](logsOp = "message"
            => /\ Len(logs) <= limitNow
               /\ Len(logs) <= Len(received)
               /\ logs = SubSeq(received, Len(received) - Len(logs) + 1,
                                Len(received)))
    /\ [][ /\ logsOp' = "message" /\ arrived' # arrived
                => Len(logs') = (IF Len(logs) + 1 > limitNow
                                    THEN limitNow ELSE Len(logs) + 1)
           /\ logsOp' = "badMessage" => logs' = logs ]_vars

\* The buffer was full at the limit of 2 when the third entry arrived: the
\* first was dropped.
C32_Witness ==
    /\ logsOp = "message"
    /\ limitNow = 2
    /\ logs = <<2, 3>>
    /\ received = <<1, 2, 3>>

\* --------------------------------------------------------------- C33
\* C33: at most one EventSource is open, and it is the one eventSource
\* refers to; and every stream error is followed, in the end, by a new
\* start of the stream.
C33_OneOpenStream ==
    /\ [] /\ Cardinality(openStreams) <= 1
          /\ openStreams # {} => openStreams = {eventSource}
    /\ \A k \in 1..MaxStreams :
          (errorsSeen >= k) ~> (streamsMade >= k + 1)

\* Two errors arrived before the first reconnect fired; both reconnects
\* have run since, each closing the stream before it.
C33_Witness ==
    /\ errorsSeen = 2
    /\ streamsMade = 3
    /\ openStreams = {3}
    /\ reconnectTimers = 0

\* --------------------------------------------------------------- C34
\* C34: the app controller has at most one live auto-refresh interval, and
\* once auto-refresh has been started with a refresh interval that is 0,
\* negative or not a number, no interval is live (so refreshTimer refers to
\* no live one).
C34_OneRefreshTimer ==
    /\ Cardinality(liveRefreshTimers) <= 1
    /\ (refreshOp # "none" /\ NoRefreshWanted(refreshInterval))
          => /\ liveRefreshTimers = {}
             /\ refreshTimer \notin liveRefreshTimers

\* --------------------------------------------------------------- C35
\* C35: every filter operation (setTimeRange, setDisplayMode, toggleFamily,
\* toggleModel, selectAll, deselectAll, autoSelectNew, autoSelectTopN) that
\* changes timeRange, displayMode, selectedFamilies or selectedModels leaves
\* the stored preferences equal to these four values; and loadPreferences,
\* when preferences are stored, sets the four values to the stored ones.
C35_FilterChangesPersisted ==
    [][ /\ ( /\ filterOp' \in {"setTimeRange", "setDisplayMode",
                               "toggleFamily", "toggleModel", "selectAll",
                               "deselectAll", "autoSelectNew",
                               "autoSelectTopN"}
             /\ <<timeRange, displayMode, selectedFamilies, selectedModels>>'
                   # <<timeRange, displayMode, selectedFamilies, selectedModels>> )
            => dashboard_chart_prefs' =
                  prefsOf(timeRange', displayMode', selectedFamilies',
                          selectedModels')
        /\ (filterOp' = "loadPreferences" /\ dashboard_chart_prefs # << >>)
            => prefsOf(timeRange', displayMode', selectedFamilies',
                       selectedModels') = dashboard_chart_prefs ]_vars

\* --------------------------------------------------------------- C36
\* C36: with no preferences stored autoSelectNew selects every family of
\* the list and every model of the tree; and after autoSelectNew no family
\* and no model that the user deselected (by toggleFamily, toggleModel or
\* deselectAll) and has not selected again is selected.
C36_AutoSelectKeepsDeselected ==
    /\ [](filterOp = "autoSelectNew"
            => \A item \in userDeselected :
                  IF Len(item) = 1
                  THEN ~contains(selectedFamilies, item[1])
                  ELSE ~contains(selectedModels[item[1]].models, item[2]))
    /\ [][ (filterOp' = "autoSelectNew" /\ dashboard_chart_prefs = << >>)
              => /\ selectedFamilies' = families
                 /\ \A f \in Range(families) :
                       selectedModels'[f] = Present(modelTree[f]) ]_vars

\* --------------------------------------------------------------- C37
\* C37: selectedFamilies holds no family twice and no selectedModels[family]
\* holds a model twice; and toggling a family, or a model, twice gives back
\* the same selection as a set.
NoDuplicates(s) == \A i, j \in 1..Len(s) : i # j => s[i] # s[j]

C37_SelectionsWithoutDuplicates ==
    /\ NoDuplicates(selectedFamilies)
    /\ \A f \in AllFamilies :
          /\ NoDuplicates(selectedModels[f].models)
          /\ Range(toggle(toggle(selectedFamilies, f), f))
                = Range(selectedFamilies)
          /\ \A m \in Range(modelTree[f]) :
                Range(toggle(toggle(selectedModels[f].models, m), m))
                   = Range(selectedModels[f].models)

\* Both families were selected and claude has been toggled off and on: it
\* now stands after gemini; sonnet has been toggled off.
C37_Witness ==
    /\ filterOp = "toggleModel"
    /\ selectedFamilies = <<"gemini", "claude">>
    /\ selectedModels["claude"].models = <<"opus">>
    /\ userDeselected = {<<"claude", "sonnet">>}

\* C38: whenever isAllAccountsInvalid() is true, getAvailableAccounts(model)
\* is empty for every model, so stopping on that verdict never abandons a pool
\* with a selectable account; and a clearInvalid on an enabled account of such
\* a pool makes the verdict false and the account available again.
C38_AllInvalidMeansNoneAvailable ==
    /\ [](isAllAccountsInvalid =>
             \A m \in Models : getAvailableAccounts(m) = << >>)
    /\ [][ ( /\ IsCall("clearInvalid")
             /\ isAllAccountsInvalid
             /\ call'.email \in PoolEmails
             /\ Acc(call'.email).enabled # FALSE )
           => /\ ~AllInvalidIn(_accounts')
              /\ \A m \in Models :
                    call'.email \in EmailsOf(AvailableIn(_accounts', m))
         ]_vars

\* Two enabled accounts were both invalid; one has been cleared and is back
\* while the other is still invalid.
C38_Witness ==
    /\ call.op = "clearInvalid"
    /\ ret = "true"
    /\ Len(_accounts) = 2
    /\ ~isAllAccountsInvalid
    /\ \A m \in Models : call.email \in EmailsOf(getAvailableAccounts(m))
    /\ \E i \in 1..Len(_accounts) :
          /\ _accounts[i].email # call.email
          /\ _accounts[i].enabled # FALSE
          /\ _accounts[i].isInvalid

\* C39: markInvalid, clearInvalid, markRateLimited and the notify operations
\* never change the enabled flag or the email of any account and never add or
\* remove an account; a markInvalid or clearInvalid on one email changes no
\* field of any account with another email.
C39_HealthLeavesEnabledAndIdentity ==
    [][ ( \/ IsCall("markInvalid")   \/ IsCall("clearInvalid")
          \/ IsCall("markRateLimited")
          \/ IsCall("notifySuccess") \/ IsCall("notifyFailure")
          \/ IsCall("notifyRateLimit") )
        => /\ Len(_accounts') = Len(_accounts)
           /\ \A i \in 1..Len(_accounts) :
                 /\ _accounts'[i].enabled = _accounts[i].enabled
                 /\ _accounts'[i].email = _accounts[i].email
                 /\ ( /\ call'.op \in {"markInvalid", "clearInvalid"}
                      /\ _accounts[i].email # call'.email )
                    => _accounts'[i] = _accounts[i]
      ]_vars

\* An enabled account has just been marked invalid beside a healthy account
\* that is switched off.
C39_Witness ==
    /\ call.op = "markInvalid"
    /\ ret = "true"
    /\ Acc(call.email).enabled # FALSE
    /\ Acc(call.email).isInvalid
    /\ \E i \in 1..Len(_accounts) :
          /\ _accounts[i].email # call.email
          /\ _accounts[i].enabled = FALSE
          /\ ~_accounts[i].isInvalid

====
